---- MODULE Spec2Model ----
(***************************************************************************)
(* Manga-Reader: the store (tables, row-level policies, triggers of the    *)
(* supabase migrations) and the client handlers of Reader.tsx and          *)
(* AdminPanel that read and write it.                                      *)
(*                                                                         *)
(* Every client handler is an async function: the step up to its `await`   *)
(* (the request, which the store executes as one statement) is one action  *)
(* and the continuation after the await (the state updates) is another.    *)
(***************************************************************************)
EXTENDS Integers, FiniteSets, Sequences, TLC

\* ------------------------------------------------------------------ bounds
MaxInflight == 1     \* requests a client session has awaiting at once
MaxComments == 2     \* comment inserts attempted in a run
MaxReports == 2      \* report inserts attempted in a run

\* --------------------------------------------------------------- universe
NULL == "null"
Users == {"A", "B", "D"}                 \* auth.users
Mangas == {"X", "Y"}                     \* mangas.id
Threads == {<<"X", 3>>, <<"Y", 1>>}     \* (manga, chapter) a Reader opens
IssueTypes == {"unreadable", "missing"}
ReaderSessions == {"r0", "r1", "r2", "r3"}   \* mounted Reader components
PanelSessions == {"p1", "p2"}            \* mounted AdminPanel components

\* Reader's `user` prop: r1 and r2 are two sessions of the same user; in r0
\* nobody is logged in.
ReaderUser(s) == CASE s = "r1" -> "A" [] s = "r2" -> "A" [] s = "r0" -> NULL
                   [] OTHER -> "B"

\* toast.error / toast.success of a component
Toast(s, text) == [session |-> s, text |-> text]
NoToast == Toast("none", "none")

VARIABLES
    profiles,               \* profiles: user_id -> [is_admin, username]
    comment_subscriptions,  \* bag of rows: (user_id, manga_id, chapter) -> number of rows
    comments,               \* committed rows of comments
    comment_notifications,  \* committed rows of comment_notifications
    commentTx,              \* the insert transaction of each comment id
    manga_reports,          \* rows of manga_reports
    admin_notifications,    \* rows of admin_notifications
    reader,                 \* Reader component state per session
    panel,                  \* AdminPanel component state per session
    user_library,           \* rows of user_library
    api,                    \* the response to the latest request sent past the components
    toast,                  \* the toast shown last
    mangas,                 \* rows of mangas
    chapters,               \* rows of chapters
    genres,                 \* rows of genres
    auth,                   \* the auth store (useAuthStore) of each browser tab
    feed,                   \* comment list and channel of a Reader component
    pager,                  \* pages, reading mode and auto-scroll of a Reader component
    details,                \* library state of a MangaDetails component
    directory               \* Directory component state

vars == <<profiles, comment_subscriptions, comments, comment_notifications,
          commentTx, manga_reports, admin_notifications, reader, panel,
          user_library, api, toast, mangas, chapters, genres, auth,
          feed, pager, details, directory>>

components == <<feed, pager, details, directory>>

\* Everything but the state of the four components above.
vars_but_components == <<profiles, comment_subscriptions, comments,
                         comment_notifications, commentTx, manga_reports,
                         admin_notifications, reader, panel, user_library, api,
                         toast, mangas, chapters, genres, auth>>

catalogAndAuth == <<mangas, chapters, genres, auth>>

\* What the handlers of Reader and AdminPanel leave alone.
restOfState == <<user_library, api, toast, catalogAndAuth, components>>

storeOfReports == <<manga_reports, admin_notifications>>

storeOfComments == <<comments, comment_notifications, commentTx>>

\* ---------------------------------------------------------- subscriptions
SubKeys == Users \X Mangas \X {1, 3}
SubKey(u, t) == <<u, t[1], t[2]>>

\* "Users can manage their own subscriptions": FOR ALL, USING and WITH CHECK.
SubscriptionPolicy(uid, key) == uid # NULL /\ uid = key[1]

\* Mutant: the table without its primary key.
InsertSubscription_NoPrimaryKey(tbl, uid, key) ==
    IF ~SubscriptionPolicy(uid, key)
    THEN [error |-> "42501", rows |-> 0, table |-> tbl]
    ELSE [error |-> NULL, rows |-> 1, table |-> [tbl EXCEPT ![key] = @ + 1]]

\* insert into comment_subscriptions under PRIMARY KEY (user_id, manga_id, chapter)
InsertSubscription(tbl, uid, key) ==
    IF ~SubscriptionPolicy(uid, key)
    THEN [error |-> "42501", rows |-> 0, table |-> tbl]
    ELSE IF tbl[key] >= 1
    THEN [error |-> "23505", rows |-> 0, table |-> tbl]
    ELSE [error |-> NULL, rows |-> 1, table |-> [tbl EXCEPT ![key] = @ + 1]]

\* Mutant: the delete filtered on user_id alone.
DeleteSubscription_ByUserOnly(tbl, uid, key) ==
    [error |-> NULL,
     rows |-> IF SubscriptionPolicy(uid, key) THEN tbl[key] ELSE 0,
     table |-> [k \in SubKeys |->
                  IF k[1] = key[1] /\ SubscriptionPolicy(uid, k) THEN 0 ELSE tbl[k]]]

\* delete().eq('manga_id').eq('chapter').eq('user_id'), rows filtered by USING
DeleteSubscription(tbl, uid, key) ==
    [error |-> NULL,
     rows |-> IF SubscriptionPolicy(uid, key) THEN tbl[key] ELSE 0,
     table |-> [k \in SubKeys |->
                  IF k = key /\ SubscriptionPolicy(uid, k) THEN 0 ELSE tbl[k]]]

\* select('*').eq(...).maybeSingle(): an error when more than one row matches
SelectSubscription(tbl, uid, key) ==
    LET n == IF SubscriptionPolicy(uid, key) THEN tbl[key] ELSE 0
    IN  IF n > 1 THEN [error |-> "PGRST116", data |-> FALSE]
        ELSE [error |-> NULL, data |-> n = 1]

\* ------------------------------------------------------------------ Reader
MountedReader(t) ==
    [thread |-> t, isSubscribed |-> FALSE, inflight |-> {}]

\* What a request awaits: the response's data and error; `rows` is the number of
\* rows the statement touched.
Response(op, data, error, rows) ==
    [op |-> op, data |-> data, error |-> error, rows |-> rows]

CanSend(s) == Cardinality(reader[s].inflight) < MaxInflight

\* App renders <Reader> for the chosen chapter: a fresh component; what the
\* old one awaited is discarded.
OpenChapter(s, t) ==
    /\ t # reader[s].thread
    /\ reader' = [reader EXCEPT ![s] = MountedReader(t)]
    /\ UNCHANGED <<restOfState, profiles, comment_subscriptions, storeOfComments, storeOfReports, panel>>

\* checkSubscription, up to its await (run by the mount effect, which re-runs
\* whenever one of its dependencies changes)
CheckSubscription(s) ==
    LET u == ReaderUser(s)
        key == SubKey(u, reader[s].thread)
        res == SelectSubscription(comment_subscriptions, u, key)
    IN  /\ u # NULL
        /\ CanSend(s)
        /\ reader' = [reader EXCEPT ![s].inflight =
                        @ \cup {Response("check", res.data, res.error, 0)}]
        /\ UNCHANGED <<restOfState, profiles, comment_subscriptions, storeOfComments, storeOfReports, panel>>

\* checkSubscription, after its await
CheckSubscriptionDone(s) ==
    \E r \in reader[s].inflight :
        /\ r.op = "check"
        /\ reader' = [reader EXCEPT
                        ![s].inflight = @ \ {r},
                        ![s].isSubscribed = IF r.error = NULL THEN r.data ELSE @]
        /\ UNCHANGED <<restOfState, profiles, comment_subscriptions, storeOfComments, storeOfReports, panel>>

\* toggleSubscription, up to its await: the branch is taken on the session's
\* own isSubscribed flag
ToggleSubscription(s) ==
    LET u == ReaderUser(s)
        key == SubKey(u, reader[s].thread)
        res == IF reader[s].isSubscribed
               THEN DeleteSubscription(comment_subscriptions, u, key)
               ELSE InsertSubscription(comment_subscriptions, u, key)
        op == IF reader[s].isSubscribed THEN "unsubscribe" ELSE "subscribe"
    IN  /\ u # NULL
        /\ CanSend(s)
        /\ comment_subscriptions' = res.table
        /\ reader' = [reader EXCEPT ![s].inflight =
                        @ \cup {Response(op, FALSE, res.error, res.rows)}]
        /\ UNCHANGED <<restOfState, profiles, storeOfComments, storeOfReports, panel>>

\* The toast toggleSubscription shows for a response.
SubscriptionToast(r) ==
    IF r.error # NULL THEN "Failed to update subscription"
    ELSE IF r.op = "subscribe" THEN "Subscribed to comments"
    ELSE "Unsubscribed from comments"

\* toggleSubscription, after its await
ToggleSubscriptionDone(s) ==
    \E r \in reader[s].inflight :
        /\ r.op \in {"subscribe", "unsubscribe"}
        /\ reader' = [reader EXCEPT
                        ![s].inflight = @ \ {r},
                        ![s].isSubscribed =
                            IF r.error # NULL THEN @ ELSE r.op = "subscribe"]
        /\ UNCHANGED <<restOfState, profiles, comment_subscriptions, storeOfComments, storeOfReports, panel>>

\* ---------------------------------------------------------------- comments
CommentIds == 1..MaxComments

NoTx == [phase |-> "none", row |-> NULL, fanout |-> {}]

\* "Authenticated users can create comments" and "Users can manage their own
\* comments": WITH CHECK (auth.uid() = user_id)
CommentInsertPolicy(uid, row) == uid # NULL /\ uid = row.user_id

\* comment_notifications has a SELECT and an UPDATE policy and none for INSERT:
\* under row-level security no row passes.
NotificationInsertPolicy(uid, row) == FALSE

\* The rows of comment_subscriptions a statement run by uid sees (USING).
VisibleSubscriptions(tbl, uid) ==
    [k \in SubKeys |-> IF SubscriptionPolicy(uid, k) THEN tbl[k] ELSE 0]

\* notify_comment_subscribers: INSERT INTO comment_notifications ... SELECT ...
\* FROM comment_subscriptions cs WHERE cs.manga_id = NEW.manga_id AND cs.chapter =
\* NEW.chapter AND cs.user_id != NEW.user_id. The function is not SECURITY
\* DEFINER: it runs as the role that inserted the comment, so its SELECT and its
\* INSERT pass through that role's policies.
notify_comment_subscribers(tbl, new, uid) ==
    LET cs == VisibleSubscriptions(tbl, uid)
        selected == {k \in SubKeys : /\ cs[k] >= 1
                                      /\ k[2] = new.manga_id
                                      /\ k[3] = new.chapter
                                      /\ k[1] # new.user_id}
        rows == UNION {{[id |-> <<new.id, k[1], i>>, user_id |-> k[1],
                         comment_id |-> new.id, read |-> FALSE] : i \in 1..cs[k]}
                       : k \in selected}
    IN  IF \E r \in rows : ~NotificationInsertPolicy(uid, r)
        THEN [error |-> "42501", rows |-> {}]
        ELSE [error |-> NULL, rows |-> rows]

\* Mutant: the row of an insert is visible to other statements before its
\* transaction (the trigger included) has ended.
AutocommittedInsert(tbl, row) == tbl \cup {row}

\* on_comment_created is an AFTER INSERT ... FOR EACH ROW trigger: it runs inside
\* the inserting statement's transaction, whose row no other statement sees
\* before the commit.
UncommittedInsert(tbl, row) == tbl

FreeCommentId == CHOOSE id \in CommentIds :
                    /\ commentTx[id].phase = "none"
                    /\ \A j \in CommentIds : commentTx[j].phase = "none" => id <= j

\* The texts of the comment box, and String.prototype.trim on them.
CommentTexts == {"", "  ", " hi ", "hi"}
Trim_None(text) == text

Trim(text) == CASE text = "  " -> ""
                [] text = " hi " -> "hi"
                [] OTHER -> text

\* handleComment with the comment box holding `text`: the two early returns,
\* else the insert into comments (the statement's row, before its trigger)
HandleComment(s, text) ==
    LET u == ReaderUser(s)
        row == [id |-> FreeCommentId, manga_id |-> reader[s].thread[1],
                chapter |-> reader[s].thread[2], user_id |-> u,
                content |-> Trim(text)]
    IN  IF u = NULL
        THEN /\ toast' = Toast(s, "Please login to comment")
             /\ UNCHANGED <<profiles, comment_subscriptions, storeOfComments, reader,
                            storeOfReports, panel, user_library, api, catalogAndAuth, components>>
        ELSE IF Trim(text) = ""
        THEN /\ toast' = Toast(s, "Please enter a comment")
             /\ UNCHANGED <<profiles, comment_subscriptions, storeOfComments, reader,
                            storeOfReports, panel, user_library, api, catalogAndAuth, components>>
        ELSE /\ \E id \in CommentIds : commentTx[id].phase = "none"
             /\ commentTx' = [commentTx EXCEPT ![row.id] =
                     IF CommentInsertPolicy(u, row)
                     THEN [NoTx EXCEPT !.phase = "inserted", !.row = row]
                     ELSE [NoTx EXCEPT !.phase = "failed", !.row = row]]
             /\ comments' = IF CommentInsertPolicy(u, row)
                            THEN UncommittedInsert(comments, row) ELSE comments
             /\ UNCHANGED <<restOfState, profiles, comment_subscriptions,
                            comment_notifications, reader, storeOfReports, panel>>

\* the trigger on_comment_created, run for the inserted row
OnCommentCreated(id) ==
    LET tx == commentTx[id]
        res == notify_comment_subscribers(comment_subscriptions, tx.row, tx.row.user_id)
    IN  /\ tx.phase = "inserted"
        /\ commentTx' = [commentTx EXCEPT ![id] =
                [tx EXCEPT !.phase = IF res.error = NULL THEN "triggered" ELSE "failed",
                           !.fanout = res.rows]]
        /\ UNCHANGED <<restOfState, profiles, comment_subscriptions, comments,
                       comment_notifications, reader, storeOfReports, panel>>

\* the end of the insert's transaction: commit, or roll back after an error
EndCommentTx(id) ==
    LET tx == commentTx[id]
    IN  /\ tx.phase \in {"triggered", "failed"}
        /\ IF tx.phase = "triggered"
           THEN /\ comments' = comments \cup {tx.row}
                /\ comment_notifications' = comment_notifications \cup tx.fanout
                /\ commentTx' = [commentTx EXCEPT ![id].phase = "committed"]
           ELSE /\ comments' = comments \ {tx.row}
                /\ comment_notifications' = comment_notifications
                /\ commentTx' = [commentTx EXCEPT ![id].phase = "aborted"]
        /\ UNCHANGED <<restOfState, profiles, comment_subscriptions, reader, storeOfReports, panel>>

\* ----------------------------------------------------------------- reports
\* AdminPanel is rendered for users whose profile is_admin (App.tsx).
PanelUser(p) == IF p = "p1" THEN "A" ELSE "D"

\* EXISTS (SELECT 1 FROM profiles WHERE user_id = auth.uid() AND is_admin = true)
IsAdmin(uid) == uid \in DOMAIN profiles /\ profiles[uid].is_admin

\* "Users can create reports" WITH CHECK (auth.uid() = user_id), or
\* "Admins can manage all reports" FOR ALL WITH CHECK (is admin)
ReportInsertPolicy(uid, row) == uid # NULL /\ (uid = row.user_id \/ IsAdmin(uid))

\* "Users can view their own reports", or "Admins can manage all reports"
ReportSelectPolicy(uid, row) == uid # NULL /\ (uid = row.user_id \/ IsAdmin(uid))

\* "Admins can manage all reports" (the only policy that covers UPDATE)
ReportUpdatePolicy(uid, row) == uid # NULL /\ IsAdmin(uid)

\* Mutant: the notifications are open to every authenticated principal.
AdminNotificationPolicy_AnyAuthenticated(uid) == uid # NULL

\* "Admins can manage notifications": FOR ALL, USING (is admin); with no WITH
\* CHECK the USING expression also checks inserted rows.
AdminNotificationPolicy(uid) == uid # NULL /\ IsAdmin(uid)

\* Mutant: the trigger function without its INSERT.
notify_admins_on_report_NoInsert(new, uid) == [error |-> NULL, rows |-> {}]

\* notify_admins_on_report: INSERT INTO admin_notifications (type, data) VALUES
\* ('manga_report', jsonb_build_object(...)). Not SECURITY DEFINER: the INSERT
\* runs as the reporting role, under the policy on admin_notifications.
\* (The payload's description is left out, as is the report's.)
notify_admins_on_report(new, uid) ==
    IF ~AdminNotificationPolicy(uid)
    THEN [error |-> "42501", rows |-> {}]
    ELSE [error |-> NULL,
          rows |-> {[id |-> new.id, type |-> "manga_report", read |-> FALSE,
                     data |-> [report_id |-> new.id, manga_id |-> new.manga_id,
                               chapter |-> new.chapter,
                               issue_type |-> new.issue_type]]}]

\* insert into manga_reports, with the AFTER INSERT trigger
\* on_manga_report_created inside the statement: an error of the trigger
\* aborts the insert.
InsertReport(uid, values) ==
    LET new == [id |-> Cardinality(manga_reports) + 1,
                manga_id |-> values.manga_id, chapter |-> values.chapter,
                user_id |-> values.user_id, issue_type |-> values.issue_type,
                status |-> "pending", resolved_at |-> NULL]
        trg == notify_admins_on_report(new, uid)
    IN  IF ~ReportInsertPolicy(uid, new)
        THEN [error |-> "42501", reports |-> manga_reports,
              notifications |-> admin_notifications]
        ELSE IF trg.error # NULL
        THEN [error |-> trg.error, reports |-> manga_reports,
              notifications |-> admin_notifications]
        ELSE [error |-> NULL, reports |-> manga_reports \cup {new},
              notifications |-> admin_notifications \cup trg.rows]

\* handleReport, up to its await
SubmitReport(s, issue) ==
    LET u == ReaderUser(s)
        res == InsertReport(u, [manga_id |-> reader[s].thread[1],
                                chapter |-> reader[s].thread[2],
                                user_id |-> u, issue_type |-> issue])
    IN  /\ u # NULL
        /\ CanSend(s)
        /\ Cardinality(manga_reports) < MaxReports
        /\ manga_reports' = res.reports
        /\ admin_notifications' = res.notifications
        /\ reader' = [reader EXCEPT ![s].inflight =
                        @ \cup {Response("report", FALSE, res.error, 0)}]
        /\ UNCHANGED <<restOfState, profiles, comment_subscriptions, storeOfComments, panel>>

\* handleReport, after its await (the dialog's state is not part of the model)
SubmitReportDone(s) ==
    \E r \in reader[s].inflight :
        /\ r.op = "report"
        /\ reader' = [reader EXCEPT ![s].inflight = @ \ {r}]
        /\ UNCHANGED <<restOfState, profiles, comment_subscriptions, storeOfComments,
                       storeOfReports, panel>>

\* -------------------------------------------------------------- AdminPanel
\* notifications is the array of useState<AdminNotification[]>; received holds
\* the INSERT events of admin_notifications the panel's channel has delivered.
MountedPanel == [reports |-> {}, notifications |-> <<>>, unreadCount |-> 0,
                 inflight |-> {}, received |-> {}]

PanelCanSend(p) == Cardinality(panel[p].inflight) < MaxInflight

\* What a request of the panel awaits: the id it was about, or the rows it read.
PanelResponse(op, id, reports, notifications, error) ==
    [op |-> op, id |-> id, reports |-> reports, notifications |-> notifications,
     error |-> error]

Now == "timestamp"      \* new Date().toISOString()

\* Mutant: the timestamp is stamped when a report is closed either way.
ResolvedAt_OnAnyClose(status) ==
    IF status \in {"resolved", "rejected"} THEN Now ELSE NULL

\* resolved_at: status === 'resolved' ? new Date().toISOString() : null
ResolvedAt(status) == IF status = "resolved" THEN Now ELSE NULL

\* update({status, resolved_at}).eq('id', reportId), rows filtered by USING
UpdateReport(uid, id, status) ==
    {IF r.id = id /\ ReportUpdatePolicy(uid, r)
     THEN [r EXCEPT !.status = status, !.resolved_at = ResolvedAt(status)]
     ELSE r : r \in manga_reports}

\* select(*).order(created_at desc), rows filtered by USING. (The embedded
\* mangas and profiles of the select are taken to resolve.)
SelectReports(uid) == {r \in manga_reports : ReportSelectPolicy(uid, r)}

\* loadReports, up to its await (run by the effect when showReports is set)
LoadReports(p) ==
    /\ PanelCanSend(p)
    /\ panel' = [panel EXCEPT ![p].inflight =
                    @ \cup {PanelResponse("loadReports", 0, SelectReports(PanelUser(p)), {}, NULL)}]
    /\ UNCHANGED <<restOfState, profiles, comment_subscriptions, storeOfComments,
                   storeOfReports, reader>>

\* loadReports, after its await: setReports(data || [])
LoadReportsDone(p) ==
    \E r \in panel[p].inflight :
        /\ r.op = "loadReports"
        /\ panel' = [panel EXCEPT ![p].inflight = @ \ {r}, ![p].reports = r.reports]
        /\ UNCHANGED <<restOfState, profiles, comment_subscriptions, storeOfComments,
                       storeOfReports, reader>>

\* The buttons the panel renders for a report of its loaded list.
OfferedStatuses(status) ==
    CASE status = "pending" -> {"in_progress", "rejected"}
      [] status = "in_progress" -> {"resolved"}
      [] OTHER -> {}

\* handleReportStatus, up to its await
HandleReportStatus(p, id, status) ==
    /\ \E r \in panel[p].reports : r.id = id /\ status \in OfferedStatuses(r.status)
    /\ PanelCanSend(p)
    /\ manga_reports' = UpdateReport(PanelUser(p), id, status)
    /\ panel' = [panel EXCEPT ![p].inflight =
                    @ \cup {PanelResponse("updateReport", id, {}, {}, NULL)}]
    /\ UNCHANGED <<restOfState, profiles, comment_subscriptions, storeOfComments,
                   admin_notifications, reader>>

\* handleReportStatus, after its await: await loadReports()
HandleReportStatusDone(p) ==
    \E r \in panel[p].inflight :
        /\ r.op = "updateReport"
        /\ panel' = [panel EXCEPT ![p].inflight =
                (@ \ {r}) \cup {PanelResponse("loadReports", 0, SelectReports(PanelUser(p)), {}, NULL)}]
        /\ UNCHANGED <<restOfState, profiles, comment_subscriptions, storeOfComments,
                       storeOfReports, reader>>

\* Mutant: the update flips the flag instead of setting it.
UpdateNotificationRead_Flip(uid, id) ==
    {IF n.id = id /\ AdminNotificationPolicy(uid)
     THEN [n EXCEPT !.read = ~@] ELSE n : n \in admin_notifications}

\* update({read: true}).eq('id', id), rows filtered by USING
UpdateNotificationRead(uid, id) ==
    {IF n.id = id /\ AdminNotificationPolicy(uid)
     THEN [n EXCEPT !.read = TRUE] ELSE n : n \in admin_notifications}

\* select('*').order(created_at desc), rows filtered by USING
SelectNotifications(uid) ==
    {n \in admin_notifications : AdminNotificationPolicy(uid)}

\* .order('created_at', { ascending: false }): ids grow with created_at
RECURSIVE ByCreatedAtDesc(_)
ByCreatedAtDesc(rows) ==
    IF rows = {} THEN <<>>
    ELSE LET n == CHOOSE x \in rows : \A y \in rows : y.id <= x.id
         IN  <<n>> \o ByCreatedAtDesc(rows \ {n})

\* data?.filter(n => !n.read).length
Unread(list) == Cardinality({i \in DOMAIN list : ~list[i].read})

\* loadNotifications, up to its await (run by the panel's effect)
LoadNotifications(p) ==
    /\ PanelCanSend(p)
    /\ panel' = [panel EXCEPT ![p].inflight =
                    @ \cup {PanelResponse("loadNotifications", 0, {},
                                          SelectNotifications(PanelUser(p)), NULL)}]
    /\ UNCHANGED <<restOfState, profiles, comment_subscriptions, storeOfComments,
                   storeOfReports, reader>>

\* loadNotifications, after its await: setNotifications, setUnreadCount
LoadNotificationsDone(p) ==
    \E r \in panel[p].inflight :
        /\ r.op = "loadNotifications"
        /\ panel' = [panel EXCEPT
                        ![p].inflight = @ \ {r},
                        ![p].notifications = ByCreatedAtDesc(r.notifications),
                        ![p].unreadCount = Unread(ByCreatedAtDesc(r.notifications))]
        /\ UNCHANGED <<restOfState, profiles, comment_subscriptions, storeOfComments,
                       storeOfReports, reader>>

\* The click on a notification of the panel's list, `if (!notification.read)
\* markNotificationAsRead(notification.id)`, up to the await
MarkNotificationAsRead(p, id) ==
    /\ \E i \in DOMAIN panel[p].notifications :
          panel[p].notifications[i].id = id /\ ~panel[p].notifications[i].read
    /\ PanelCanSend(p)
    /\ admin_notifications' = UpdateNotificationRead(PanelUser(p), id)
    /\ panel' = [panel EXCEPT ![p].inflight =
                    @ \cup {PanelResponse("markRead", id, {}, {}, NULL)}]
    /\ UNCHANGED <<restOfState, profiles, comment_subscriptions, storeOfComments,
                   manga_reports, reader>>

\* markNotificationAsRead, after its await
MarkNotificationAsReadDone(p) ==
    \E r \in panel[p].inflight :
        /\ r.op = "markRead"
        /\ panel' = [panel EXCEPT
                        ![p].inflight = @ \ {r},
                        ![p].notifications =
                            IF r.error # NULL THEN @
                            ELSE [i \in DOMAIN @ |->
                                    IF @[i].id = r.id THEN [@[i] EXCEPT !.read = TRUE]
                                    ELSE @[i]],
                        ![p].unreadCount =
                            IF r.error # NULL THEN @
                            ELSE IF @ - 1 > 0 THEN @ - 1 ELSE 0]
        /\ UNCHANGED <<restOfState, profiles, comment_subscriptions, storeOfComments,
                       storeOfReports, reader>>

\* The callback of subscribeToNotifications: the INSERT event of row id reaches
\* the panel, once, any time after the insert; payload.new is the row as it
\* was inserted. Events are delivered to those who may select the row.
OnNotificationInsert(p, id) ==
    /\ id \notin panel[p].received
    /\ \E n \in SelectNotifications(PanelUser(p)) :
          /\ n.id = id
          /\ panel' = [panel EXCEPT
                          ![p].received = @ \cup {id},
                          ![p].notifications = <<[n EXCEPT !.read = FALSE]>> \o @,
                          ![p].unreadCount = @ + 1]
    /\ UNCHANGED <<restOfState, profiles, comment_subscriptions, storeOfComments,
                   storeOfReports, reader>>

\* ------------------------------------- requests sent past the components
\* The store answers any request that carries the project's public key: the
\* principal is auth.uid() of the request's token, NULL for the anon role, and
\* the filter is whatever the request chooses.
Principals == {"A", "B", NULL}
UserFilters == {"A", "B", "any"}       \* .eq('user_id', ...), or no such filter
Matches(f, owner) == f = "any" \/ f = owner

\* A request and its response, as far as row ownership goes: who sent which
\* operation on which relation with which filter (target), and the user_id
\* values of the rows the statement returned or affected.
ApiResponse(uid, relation, op, target, owners, error) ==
    [principal |-> uid, relation |-> relation, op |-> op, target |-> target,
     owners |-> owners, error |-> error]

NoResponse == ApiResponse(NULL, "none", "none", "none", {}, NULL)

\* ------------------------------------------------------ comments, directly
\* "Anyone can read comments": FOR SELECT TO public USING (true)
CommentSelectPolicy(uid, row) == TRUE

\* Mutant: any authenticated principal may manage any comment.
CommentOwnerPolicy_AnyAuthenticated(uid, row) == uid # NULL

\* "Users can manage their own comments": FOR ALL TO authenticated, USING and
\* WITH CHECK (auth.uid() = user_id); the only policy for UPDATE and DELETE
CommentOwnerPolicy(uid, row) == uid # NULL /\ uid = row.user_id

SelectComments(uid) == {c \in comments : CommentSelectPolicy(uid, c)}

\* insert into comments with its trigger, as one statement
InsertCommentStatement(uid, row) ==
    LET trg == notify_comment_subscribers(comment_subscriptions, row, uid)
    IN  IF ~(CommentInsertPolicy(uid, row) \/ CommentOwnerPolicy(uid, row))
        THEN [error |-> "42501", comments |-> comments,
              notifications |-> comment_notifications]
        ELSE IF trg.error # NULL
        THEN [error |-> trg.error, comments |-> comments,
              notifications |-> comment_notifications]
        ELSE [error |-> NULL, comments |-> comments \cup {row},
              notifications |-> comment_notifications \cup trg.rows]

\* update comments set content = ... where id = ..., rows filtered by USING;
\* user_id is not changed, so WITH CHECK passes for every row USING let through
UpdateCommentContent(uid, id, content) ==
    {IF c.id = id /\ CommentOwnerPolicy(uid, c)
     THEN [c EXCEPT !.content = content] ELSE c : c \in comments}

\* delete from comments where id = ..., rows filtered by USING
DeleteComment(uid, id) ==
    {c \in comments : ~(c.id = id /\ CommentOwnerPolicy(uid, c))}

ReadComments(uid) ==
    /\ api' = ApiResponse(uid, "comments", "select", "any",
                          {c.user_id : c \in SelectComments(uid)}, NULL)
    /\ UNCHANGED <<profiles, comment_subscriptions, storeOfComments, storeOfReports,
                   reader, panel, user_library, toast, catalogAndAuth, components>>

\* an insert with any user_id in its row
WriteComment(uid, author) ==
    LET id == CHOOSE i \in CommentIds :
                  /\ \A c \in comments : c.id # i
                  /\ \A j \in CommentIds : (\A c \in comments : c.id # j) => i <= j
        row == [id |-> id, manga_id |-> "X", chapter |-> 3, user_id |-> author,
                content |-> "hi"]
        res == InsertCommentStatement(uid, row)
    IN  /\ \E i \in CommentIds : \A c \in comments : c.id # i
        /\ comments' = res.comments
        /\ comment_notifications' = res.notifications
        /\ api' = ApiResponse(uid, "comments", "insert", ToString(id),
                              IF res.error = NULL THEN {author} ELSE {}, res.error)
        /\ UNCHANGED <<profiles, comment_subscriptions, commentTx, storeOfReports,
                       reader, panel, user_library, toast, catalogAndAuth, components>>

EditComment(uid, id) ==
    /\ comments' = UpdateCommentContent(uid, id, "yo")
    /\ api' = ApiResponse(uid, "comments", "update", ToString(id),
            {c.user_id : c \in {d \in comments :
                d.id = id /\ CommentOwnerPolicy(uid, d)}}, NULL)
    /\ UNCHANGED <<profiles, comment_subscriptions, comment_notifications, commentTx,
                   storeOfReports, reader, panel, user_library, toast, catalogAndAuth, components>>

\* comment_notifications.comment_id REFERENCES comments(id) ON DELETE CASCADE
EraseComment(uid, id) ==
    /\ comments' = DeleteComment(uid, id)
    /\ comment_notifications' =
          {n \in comment_notifications :
              \E c \in DeleteComment(uid, id) : c.id = n.comment_id}
    /\ api' = ApiResponse(uid, "comments", "delete", ToString(id),
            {c.user_id : c \in comments \ DeleteComment(uid, id)}, NULL)
    /\ UNCHANGED <<profiles, comment_subscriptions, commentTx, storeOfReports,
                   reader, panel, user_library, toast, catalogAndAuth, components>>

\* ---------------------------- manga_reports and admin_notifications, directly
\* an insert with any user_id in its row
WriteReport(uid, owner) ==
    LET res == InsertReport(uid, [manga_id |-> "X", chapter |-> 3,
                                  user_id |-> owner, issue_type |-> "missing"])
    IN  /\ Cardinality(manga_reports) < MaxReports
        /\ manga_reports' = res.reports
        /\ admin_notifications' = res.notifications
        /\ api' = ApiResponse(uid, "manga_reports", "insert", owner,
                              IF res.error = NULL THEN {owner} ELSE {}, res.error)
        /\ UNCHANGED <<profiles, comment_subscriptions, storeOfComments, reader,
                       panel, user_library, toast, catalogAndAuth, components>>

ReadReports(uid) ==
    /\ api' = ApiResponse(uid, "manga_reports", "select", "any",
                          {r.user_id : r \in SelectReports(uid)}, NULL)
    /\ UNCHANGED <<profiles, comment_subscriptions, storeOfComments, storeOfReports,
                   reader, panel, user_library, toast, catalogAndAuth, components>>

\* handleReportStatus' update, sent by any principal
ChangeReport(uid, id, status) ==
    /\ manga_reports' = UpdateReport(uid, id, status)
    /\ api' = ApiResponse(uid, "manga_reports", "update", ToString(id),
            {r.user_id : r \in {q \in manga_reports :
                q.id = id /\ ReportUpdatePolicy(uid, q)}}, NULL)
    /\ UNCHANGED <<profiles, comment_subscriptions, storeOfComments,
                   admin_notifications, reader, panel, user_library, toast, catalogAndAuth, components>>

\* The rows of admin_notifications have no user_id: a response names them by
\* the group they are meant for.
ReadAdminNotifications(uid) ==
    /\ api' = ApiResponse(uid, "admin_notifications", "select", "any",
                          {"admins" : n \in SelectNotifications(uid)}, NULL)
    /\ UNCHANGED <<profiles, comment_subscriptions, storeOfComments, storeOfReports,
                   reader, panel, user_library, toast, catalogAndAuth, components>>

\* markNotificationAsRead's update, sent by any principal
MarkAdminNotification(uid, id) ==
    /\ admin_notifications' = UpdateNotificationRead(uid, id)
    /\ api' = ApiResponse(uid, "admin_notifications", "update", ToString(id),
            {"admins" : n \in {m \in admin_notifications :
                m.id = id /\ AdminNotificationPolicy(uid)}}, NULL)
    /\ UNCHANGED <<profiles, comment_subscriptions, storeOfComments, manga_reports,
                   reader, panel, user_library, toast, catalogAndAuth, components>>

\* delete from admin_notifications where id = ..., rows filtered by USING
RemoveAdminNotification(uid, id) ==
    /\ admin_notifications' =
          {n \in admin_notifications : ~(n.id = id /\ AdminNotificationPolicy(uid))}
    /\ api' = ApiResponse(uid, "admin_notifications", "delete", ToString(id),
            {"admins" : n \in {m \in admin_notifications :
                m.id = id /\ AdminNotificationPolicy(uid)}}, NULL)
    /\ UNCHANGED <<profiles, comment_subscriptions, storeOfComments, manga_reports,
                   reader, panel, user_library, toast, catalogAndAuth, components>>

\* ------------------------------------------------------------ user_library
LibraryStatuses == {"reading", "completed"}
LibraryRows == [user_id : {"A", "B"}, manga_id : {"X"}, status : LibraryStatuses,
                current_chapter : {1}]

\* "Users can manage their own library": no FOR clause, so FOR ALL; TO
\* authenticated, USING and WITH CHECK (user_id = auth.uid())
LibraryPolicy(uid, row) == uid # NULL /\ row.user_id = uid

\* select from user_library, rows filtered by USING
SelectLibrary(uid, f) ==
    {r \in user_library : LibraryPolicy(uid, r) /\ Matches(f, r.user_id)}

\* select from user_library_view. The view is created without security_invoker:
\* its query runs with the rights of the view's owner, the role that ran the
\* migration and owns user_library, for which row-level security is not
\* enforced. Every manga_id joins its mangas row.
SelectLibraryView(uid, f) ==
    {r \in user_library : Matches(f, r.user_id)}

\* upsert into user_library under PRIMARY KEY (user_id, manga_id)
UpsertLibrary(uid, row) ==
    IF ~LibraryPolicy(uid, row)
    THEN [error |-> "42501", table |-> user_library]
    ELSE [error |-> NULL,
          table |-> {r \in user_library :
                        ~(r.user_id = row.user_id /\ r.manga_id = row.manga_id)}
                    \cup {row}]

\* delete from user_library, rows filtered by USING
DeleteLibrary(uid, f) ==
    {r \in user_library : ~(LibraryPolicy(uid, r) /\ Matches(f, r.user_id))}

ReadLibrary(uid, f) ==
    /\ api' = ApiResponse(uid, "user_library", "select", f,
                          {r.user_id : r \in SelectLibrary(uid, f)}, NULL)
    /\ UNCHANGED <<profiles, comment_subscriptions, storeOfComments, storeOfReports,
                   reader, panel, user_library, toast, catalogAndAuth, components>>

\* loadLibrary's select, with any user_id as its filter. The request needs the
\* authenticated role's grant on the view, the one loadLibrary relies on.
ReadLibraryView(uid, f) ==
    /\ uid # NULL
    /\ api' = ApiResponse(uid, "user_library_view", "select", f,
                          {r.user_id : r \in SelectLibraryView(uid, f)}, NULL)
    /\ UNCHANGED <<profiles, comment_subscriptions, storeOfComments, storeOfReports,
                   reader, panel, user_library, toast, catalogAndAuth, components>>

\* addToLibrary's upsert, with any user_id in its row
WriteLibrary(uid, row) ==
    LET res == UpsertLibrary(uid, row)
    IN  /\ user_library' = res.table
        /\ api' = ApiResponse(uid, "user_library", "upsert", row.user_id,
                              IF res.error = NULL THEN {row.user_id} ELSE {},
                              res.error)
        /\ UNCHANGED <<profiles, comment_subscriptions, storeOfComments,
                       storeOfReports, reader, panel, toast, catalogAndAuth, components>>

RemoveLibrary(uid, f) ==
    /\ user_library' = DeleteLibrary(uid, f)
    /\ api' = ApiResponse(uid, "user_library", "delete", f,
                          {r.user_id : r \in user_library \ DeleteLibrary(uid, f)},
                          NULL)
    /\ UNCHANGED <<profiles, comment_subscriptions, storeOfComments,
                   storeOfReports, reader, panel, toast, catalogAndAuth, components>>

\* --------------- comment_subscriptions and comment_notifications, directly
OwnRowKeys == {<<"A", "X", 3>>, <<"B", "X", 3>>}

ReadSubscription(uid, key) ==
    LET res == SelectSubscription(comment_subscriptions, uid, key)
    IN  /\ api' = ApiResponse(uid, "comment_subscriptions", "select", key[1],
                              IF res.data THEN {key[1]} ELSE {}, res.error)
        /\ UNCHANGED <<profiles, comment_subscriptions, storeOfComments,
                       storeOfReports, reader, panel, user_library, toast, catalogAndAuth, components>>

WriteSubscription(uid, key) ==
    LET res == InsertSubscription(comment_subscriptions, uid, key)
    IN  /\ comment_subscriptions' = res.table
        /\ api' = ApiResponse(uid, "comment_subscriptions", "insert", key[1],
                              IF res.rows > 0 THEN {key[1]} ELSE {}, res.error)
        /\ UNCHANGED <<profiles, storeOfComments, storeOfReports, reader, panel,
                       user_library, toast, catalogAndAuth, components>>

RemoveSubscription(uid, key) ==
    LET res == DeleteSubscription(comment_subscriptions, uid, key)
    IN  /\ comment_subscriptions' = res.table
        /\ api' = ApiResponse(uid, "comment_subscriptions", "delete", key[1],
                              IF res.rows > 0 THEN {key[1]} ELSE {}, res.error)
        /\ UNCHANGED <<profiles, storeOfComments, storeOfReports, reader, panel,
                       user_library, toast, catalogAndAuth, components>>

\* "Users can view their own notifications" (SELECT) and "Users can mark their
\* notifications as read" (UPDATE): USING (auth.uid() = user_id)
CommentNotificationPolicy(uid, row) == uid # NULL /\ uid = row.user_id

ReadCommentNotifications(uid, f) ==
    /\ api' = ApiResponse(uid, "comment_notifications", "select", f,
            {n.user_id : n \in {m \in comment_notifications :
                CommentNotificationPolicy(uid, m) /\ Matches(f, m.user_id)}}, NULL)
    /\ UNCHANGED <<profiles, comment_subscriptions, storeOfComments, storeOfReports,
                   reader, panel, user_library, toast, catalogAndAuth, components>>

\* update comment_notifications set read = true, with any user_id as filter
MarkCommentNotifications(uid, f) ==
    /\ comment_notifications' =
          {IF CommentNotificationPolicy(uid, n) /\ Matches(f, n.user_id)
           THEN [n EXCEPT !.read = TRUE] ELSE n : n \in comment_notifications}
    /\ api' = ApiResponse(uid, "comment_notifications", "update", f,
            {n.user_id : n \in {m \in comment_notifications :
                CommentNotificationPolicy(uid, m) /\ Matches(f, m.user_id)}}, NULL)
    /\ UNCHANGED <<profiles, comment_subscriptions, comments, commentTx,
                   storeOfReports, reader, panel, user_library, toast, catalogAndAuth, components>>

\* delete from comment_notifications: no policy covers DELETE, no row passes
RemoveCommentNotifications(uid, f) ==
    /\ api' = ApiResponse(uid, "comment_notifications", "delete", f, {}, NULL)
    /\ UNCHANGED <<profiles, comment_subscriptions, storeOfComments, storeOfReports,
                   reader, panel, user_library, toast, catalogAndAuth, components>>

\* -------------------------------------------------------------- auth store
Tabs == {"t1", "t2"}                              \* browser tabs running App
CallSites == {"getSession", "onAuthStateChange"}  \* fetchUserProfile's callers

\* `user: null` of the store, and a select that found no row
NoUser == [id |-> NULL, email |-> <<>>, isAdmin |-> FALSE, username |-> <<>>]
NoProfile == [user_id |-> NULL, username |-> <<>>, is_admin |-> FALSE]

\* A call of fetchUserProfile: where it stands and the response it awaits.
IdleCall == [pc |-> "idle", profile |-> NoProfile, error |-> NULL]

\* create<AuthState>: user: null, loading: true; with it what App and Auth
\* of the tab hold: whether supabase.auth has a session, where Auth's sign-up
\* and App's handleLogout stand
InitialAuth == [user |-> NoUser, loading |-> TRUE, call |-> [c \in CallSites |-> IdleCall],
                session |-> TRUE, signUp |-> IdleCall, logout |-> "idle"]

\* ------------------------------------------ mangas, chapters and genres
\* What a request on the catalog leaves alone.
restOfCatalog == <<profiles, comment_subscriptions, storeOfComments, storeOfReports,
                   reader, panel, user_library, toast, auth, components>>

Creators == {"A", "B", NULL}     \* created_by of a manga row a request carries
ChapterNumbers == {1}
GenreNames == {"action"}

\* "Anyone can read mangas" / chapters / genres: FOR SELECT TO public USING (true)
CatalogSelectPolicy(uid) == TRUE

\* "Admins can manage all mangas" / chapters / genres: TO authenticated,
\* USING and WITH CHECK (the caller's profile has is_admin)
CatalogAdminPolicy(uid) == uid # NULL /\ IsAdmin(uid)

MangaAuthorPolicy_AnyAuthor(uid, row) == uid # NULL /\ row.created_by # NULL

\* "Authors can manage their own mangas": TO authenticated,
\* USING and WITH CHECK (created_by = auth.uid())
MangaAuthorPolicy(uid, row) == uid # NULL /\ row.created_by = uid

\* The permissive policies of mangas that cover a write, OR-ed.
MangaWritePolicy(uid, row) == CatalogAdminPolicy(uid) \/ MangaAuthorPolicy(uid, row)

\* "Authors can manage chapters of their mangas": TO authenticated, EXISTS
\* (SELECT 1 FROM mangas WHERE id = chapters.manga_id AND created_by = auth.uid())
ChapterAuthorPolicy(uid, row) ==
    /\ uid # NULL
    /\ \E g \in mangas : g.id = row.manga_id /\ MangaAuthorPolicy(uid, g)

ChapterWritePolicy(uid, row) == CatalogAdminPolicy(uid) \/ ChapterAuthorPolicy(uid, row)

\* mangas.created_by of the manga a chapter belongs to
CreatedBy(manga_id) == {g.created_by : g \in {h \in mangas : h.id = manga_id}}

ReadMangas(uid) ==
    /\ api' = ApiResponse(uid, "mangas", "select", "any",
                          {g.id : g \in {h \in mangas : CatalogSelectPolicy(uid)}}, NULL)
    /\ UNCHANGED <<restOfCatalog, mangas, chapters, genres>>

\* insert into mangas (id, created_by): primary key id, WITH CHECK of the policies
WriteManga(uid, id, creator) ==
    LET row == [id |-> id, created_by |-> creator]
        error == IF ~MangaWritePolicy(uid, row) THEN "42501"
                 ELSE IF \E g \in mangas : g.id = id THEN "23505" ELSE NULL
    IN  /\ mangas' = IF error = NULL THEN mangas \cup {row} ELSE mangas
        /\ api' = ApiResponse(uid, "mangas", "insert", id,
                              IF error = NULL THEN {id} ELSE {}, error)
        /\ UNCHANGED <<restOfCatalog, chapters, genres>>

\* update mangas set created_by = ... where id = ...: rows filtered by USING,
\* the new row checked by WITH CHECK
EditManga(uid, id, creator) ==
    LET hit == {g \in mangas : g.id = id /\ MangaWritePolicy(uid, g)}
        error == IF \E g \in hit :
                        ~MangaWritePolicy(uid, [g EXCEPT !.created_by = creator])
                 THEN "42501" ELSE NULL
    IN  /\ mangas' = IF error = NULL
                     THEN {IF g \in hit THEN [g EXCEPT !.created_by = creator] ELSE g
                           : g \in mangas}
                     ELSE mangas
        /\ api' = ApiResponse(uid, "mangas", "update", id,
                              IF error = NULL THEN {g.id : g \in hit} ELSE {}, error)
        /\ UNCHANGED <<restOfCatalog, chapters, genres>>

\* delete from mangas where id = ...: rows filtered by USING;
\* chapters.manga_id REFERENCES mangas(id) ON DELETE CASCADE
EraseManga(uid, id) ==
    LET hit == {g \in mangas : g.id = id /\ MangaWritePolicy(uid, g)}
    IN  /\ mangas' = mangas \ hit
        /\ chapters' = {c \in chapters : \A g \in hit : c.manga_id # g.id}
        /\ api' = ApiResponse(uid, "mangas", "delete", id, {g.id : g \in hit}, NULL)
        /\ UNCHANGED <<restOfCatalog, genres>>

ReadChapters(uid) ==
    /\ api' = ApiResponse(uid, "chapters", "select", "any",
                {c.manga_id : c \in {d \in chapters : CatalogSelectPolicy(uid)}}, NULL)
    /\ UNCHANGED <<restOfCatalog, mangas, chapters, genres>>

\* insert into chapters (manga_id, number, pages): UNIQUE (manga_id, number)
WriteChapter(uid, manga_id, number) ==
    LET row == [manga_id |-> manga_id, number |-> number, pages |-> 0]
        error == IF ~ChapterWritePolicy(uid, row) THEN "42501"
                 ELSE IF \A g \in mangas : g.id # manga_id THEN "23503"
                 ELSE IF \E c \in chapters :
                            c.manga_id = manga_id /\ c.number = number
                 THEN "23505" ELSE NULL
    IN  /\ chapters' = IF error = NULL THEN chapters \cup {row} ELSE chapters
        /\ api' = ApiResponse(uid, "chapters", "insert", manga_id,
                              IF error = NULL THEN {manga_id} ELSE {}, error)
        /\ UNCHANGED <<restOfCatalog, mangas, genres>>

\* update chapters set pages = ... where manga_id = ... and number = ...
EditChapter(uid, manga_id, number) ==
    LET hit == {c \in chapters : /\ c.manga_id = manga_id
                                 /\ c.number = number
                                 /\ ChapterWritePolicy(uid, c)}
    IN  /\ chapters' = {IF c \in hit THEN [c EXCEPT !.pages = 1 - c.pages] ELSE c
                        : c \in chapters}
        /\ api' = ApiResponse(uid, "chapters", "update", manga_id,
                              {c.manga_id : c \in hit}, NULL)
        /\ UNCHANGED <<restOfCatalog, mangas, genres>>

EraseChapter(uid, manga_id, number) ==
    LET hit == {c \in chapters : /\ c.manga_id = manga_id
                                 /\ c.number = number
                                 /\ ChapterWritePolicy(uid, c)}
    IN  /\ chapters' = chapters \ hit
        /\ api' = ApiResponse(uid, "chapters", "delete", manga_id,
                              {c.manga_id : c \in hit}, NULL)
        /\ UNCHANGED <<restOfCatalog, mangas, genres>>

ReadGenres(uid) ==
    /\ api' = ApiResponse(uid, "genres", "select", "any",
                {g.name : g \in {h \in genres : CatalogSelectPolicy(uid)}}, NULL)
    /\ UNCHANGED <<restOfCatalog, mangas, chapters, genres>>

\* insert into genres (name): name is UNIQUE
WriteGenre(uid, name) ==
    LET error == IF ~CatalogAdminPolicy(uid) THEN "42501"
                 ELSE IF \E g \in genres : g.name = name THEN "23505" ELSE NULL
    IN  /\ genres' = IF error = NULL
                     THEN genres \cup {[name |-> name, renamed |-> FALSE]}
                     ELSE genres
        /\ api' = ApiResponse(uid, "genres", "insert", name,
                              IF error = NULL THEN {name} ELSE {}, error)
        /\ UNCHANGED <<restOfCatalog, mangas, chapters>>

\* update genres ... where name = ...
EditGenre(uid, name) ==
    LET hit == {g \in genres : g.name = name /\ CatalogAdminPolicy(uid)}
    IN  /\ genres' = {IF g \in hit THEN [g EXCEPT !.renamed = ~g.renamed] ELSE g
                      : g \in genres}
        /\ api' = ApiResponse(uid, "genres", "update", name, {g.name : g \in hit}, NULL)
        /\ UNCHANGED <<restOfCatalog, mangas, chapters>>

EraseGenre(uid, name) ==
    LET hit == {g \in genres : g.name = name /\ CatalogAdminPolicy(uid)}
    IN  /\ genres' = genres \ hit
        /\ api' = ApiResponse(uid, "genres", "delete", name, {g.name : g \in hit}, NULL)
        /\ UNCHANGED <<restOfCatalog, mangas, chapters>>

\* auth.users.email, one character per element
Email(u) == CASE u = "A" -> <<"a", "@", "x">>
              [] u = "B" -> <<"d", "@", "y">>
              [] OTHER -> <<"d", "@", "x">>

\* email.split('@')[0]
LocalPart(email) ==
    LET ats == {i \in 1..Len(email) : email[i] = "@"}
    IN  IF ats = {} THEN email
        ELSE SubSeq(email, 1, (CHOOSE i \in ats : \A j \in ats : i <= j) - 1)

\* The session of a tab: session.user.id
TabUser(t) == IF t = "t1" THEN "A" ELSE "B"

ProfilePolicy_AnyAuthenticated(uid, user_id) == uid # NULL

\* "Users can insert / update / read their own profile":
\* TO authenticated, USING and WITH CHECK (auth.uid() = user_id)
ProfilePolicy(uid, user_id) == uid # NULL /\ uid = user_id

\* profiles rows a select of uid sees among those with user_id = userId
SelectProfile(uid, userId) ==
    IF userId \in DOMAIN profiles /\ ProfilePolicy(uid, userId)
    THEN [user_id |-> userId, username |-> profiles[userId].username,
          is_admin |-> profiles[userId].is_admin]
    ELSE NoProfile

\* insert into profiles: WITH CHECK, user_id PRIMARY KEY, username UNIQUE
InsertProfile(uid, row) ==
    LET error == IF ~ProfilePolicy(uid, row.user_id) THEN "42501"
                 ELSE IF row.user_id \in DOMAIN profiles THEN "23505"
                 ELSE IF \E x \in DOMAIN profiles : profiles[x].username = row.username
                 THEN "23505" ELSE NULL
    IN  [error |-> error,
         profiles |-> IF error # NULL THEN profiles
                      ELSE [x \in DOMAIN profiles \cup {row.user_id} |->
                               IF x = row.user_id
                               THEN [is_admin |-> row.is_admin, username |-> row.username]
                               ELSE profiles[x]]]

\* The User the store holds for a profile row
UserOf(u, profile) == [id |-> u, email |-> Email(u), isAdmin |-> profile.is_admin,
                       username |-> profile.username]

restOfAuth == <<comment_subscriptions, storeOfComments, storeOfReports, reader, panel,
                user_library, api, toast, mangas, chapters, genres, components>>

\* catch: set({ user: null }); finally: set({ loading: false })
Caught(t, c) ==
    [auth EXCEPT ![t].user = NoUser, ![t].loading = FALSE,
                 ![t].call[c] = [IdleCall EXCEPT !.pc = "done"]]

\* set({ user: {...} }); finally: set({ loading: false })
Loaded(t, c, profile) ==
    [auth EXCEPT ![t].user = UserOf(TabUser(t), profile), ![t].loading = FALSE,
                 ![t].call[c] = [IdleCall EXCEPT !.pc = "done"]]

\* fetchUserProfile(session.user.id) up to the first select; the request fails
\* with `error` when that is not NULL
FetchUserProfile(t, c, error) ==
    /\ auth[t].session
    /\ auth[t].call[c].pc = "idle"
    /\ auth' = [auth EXCEPT ![t].call[c] =
                  [pc |-> "select",
                   profile |-> IF error = NULL
                               THEN SelectProfile(TabUser(t), TabUser(t)) ELSE NoProfile,
                   error |-> error]]
    /\ UNCHANGED <<restOfAuth, profiles>>

\* the select has answered: the profile is stored in the store, or the insert
\* of a new profile is sent
FetchUserProfileSelected(t, c) ==
    LET call == auth[t].call[c]
        u == TabUser(t)
        res == InsertProfile(u, [user_id |-> u, username |-> LocalPart(Email(u)),
                                 is_admin |-> FALSE])
    IN  /\ call.pc = "select"
        /\ IF call.error # NULL
           THEN auth' = Caught(t, c) /\ UNCHANGED profiles
           ELSE IF call.profile # NoProfile
           THEN auth' = Loaded(t, c, call.profile) /\ UNCHANGED profiles
           ELSE /\ profiles' = res.profiles
                /\ auth' = [auth EXCEPT ![t].call[c] =
                              [pc |-> "insert", profile |-> NoProfile,
                               error |-> res.error]]
        /\ UNCHANGED restOfAuth

\* the insert has answered: on an error the catch block runs, otherwise the
\* new profile is fetched with .single()
FetchUserProfileInserted(t, c) ==
    LET call == auth[t].call[c]
        newProfile == SelectProfile(TabUser(t), TabUser(t))
    IN  /\ call.pc = "insert"
        /\ IF call.error # NULL
           THEN auth' = Caught(t, c)
           ELSE auth' = [auth EXCEPT ![t].call[c] =
                           [pc |-> "refetch", profile |-> newProfile,
                            error |-> IF newProfile = NoProfile
                                      THEN "PGRST116" ELSE NULL]]
        /\ UNCHANGED <<restOfAuth, profiles>>

\* the second select has answered
FetchUserProfileCreated(t, c) ==
    LET call == auth[t].call[c]
    IN  /\ call.pc = "refetch"
        /\ auth' = IF call.error # NULL THEN Caught(t, c)
                   ELSE Loaded(t, c, call.profile)
        /\ UNCHANGED <<restOfAuth, profiles>>

\* getSession().then and the onAuthStateChange callback when session is null:
\* `if (session)` fails and nothing is called
AppEffectWithoutSession(t, c) ==
    /\ ~auth[t].session
    /\ auth[t].call[c].pc = "idle"
    /\ auth' = [auth EXCEPT ![t].call[c] = [IdleCall EXCEPT !.pc = "done"]]
    /\ UNCHANGED <<restOfAuth, profiles>>

\* Auth.handleSubmit, sign-up branch, after signUp has returned the user: the
\* insert of the profile with the typed username, or the e-mail's local part
SignUp(t, username) ==
    LET u == TabUser(t)
        res == InsertProfile(u, [user_id |-> u,
                                 username |-> IF username # <<>> THEN username
                                              ELSE LocalPart(Email(u)),
                                 is_admin |-> FALSE])
    IN  /\ auth[t].session
        /\ auth[t].signUp.pc = "idle"
        /\ profiles' = res.profiles
        /\ auth' = [auth EXCEPT ![t].signUp =
                      [pc |-> "insert", profile |-> NoProfile, error |-> res.error]]
        /\ UNCHANGED restOfAuth

\* the insert has answered: `if (profileError) throw profileError`, caught with
\* toast.error; otherwise toast.success
SignUpDone(t) ==
    /\ auth[t].signUp.pc = "insert"
    /\ auth' = [auth EXCEPT ![t].signUp = [IdleCall EXCEPT !.pc = "done"]]
    /\ toast' = Toast(t, IF auth[t].signUp.error # NULL THEN auth[t].signUp.error
                         ELSE "Account created successfully!")
    /\ UNCHANGED <<comment_subscriptions, storeOfComments, storeOfReports, reader, panel,
                   user_library, api, mangas, chapters, genres, components, profiles>>

\* App.handleLogout up to `await supabase.auth.signOut()`: the session ends,
\* and the onAuthStateChange callback, called with session null, does nothing
HandleLogout(t) ==
    /\ auth[t].session
    /\ auth[t].user # NoUser
    /\ auth[t].logout = "idle"
    /\ auth' = [auth EXCEPT ![t].session = FALSE, ![t].logout = "signOut"]
    /\ UNCHANGED <<restOfAuth, profiles>>

\* signOut has returned: setShowSettingsDropdown(false); setCurrentView('home')
HandleLogoutDone(t) ==
    /\ auth[t].logout = "signOut"
    /\ auth' = [auth EXCEPT ![t].logout = "done"]
    /\ UNCHANGED <<restOfAuth, profiles>>

\* Auth.handleSubmit, login branch: signInWithPassword succeeds, the session
\* exists again and onAuthStateChange will call fetchUserProfile
Login(t) ==
    /\ ~auth[t].session
    /\ auth[t].logout = "done"
    /\ auth[t].call["onAuthStateChange"].pc \in {"idle", "done"}
    /\ auth' = [auth EXCEPT ![t].session = TRUE, ![t].logout = "idle",
                            ![t].call["onAuthStateChange"] = IdleCall]
    /\ UNCHANGED <<restOfAuth, profiles>>

\* ------------------------------------------------------ profiles, directly
ReadProfile(uid, f) ==
    /\ api' = ApiResponse(uid, "profiles", "select", f,
                {x \in DOMAIN profiles : Matches(f, x) /\ ProfilePolicy(uid, x)}, NULL)
    /\ UNCHANGED <<restOfCatalog, mangas, chapters, genres, profiles>>

\* update profiles set is_admin = ... where user_id = f: rows filtered by USING,
\* the new rows checked by WITH CHECK
EditProfile(uid, f, admin) ==
    LET hit == {x \in DOMAIN profiles : Matches(f, x) /\ ProfilePolicy(uid, x)}
    IN  /\ profiles' = [x \in DOMAIN profiles |->
                          IF x \in hit THEN [profiles[x] EXCEPT !.is_admin = admin]
                          ELSE profiles[x]]
        /\ api' = ApiResponse(uid, "profiles", "update", f, hit, NULL)
        /\ UNCHANGED <<comment_subscriptions, storeOfComments, storeOfReports, reader,
                       panel, user_library, toast, catalogAndAuth, components>>

\* an insert with any user_id in its row
WriteProfile(uid, owner) ==
    LET res == InsertProfile(uid, [user_id |-> owner, username |-> <<"z">>,
                                   is_admin |-> FALSE])
    IN  /\ profiles' = res.profiles
        /\ api' = ApiResponse(uid, "profiles", "insert", owner,
                              IF res.error = NULL THEN {owner} ELSE {}, res.error)
        /\ UNCHANGED <<comment_subscriptions, storeOfComments, storeOfReports, reader,
                       panel, user_library, toast, catalogAndAuth, components>>

\* delete from profiles: no policy covers DELETE, no row passes
RemoveProfile(uid, f) ==
    /\ api' = ApiResponse(uid, "profiles", "delete", f, {}, NULL)
    /\ UNCHANGED <<restOfCatalog, mangas, chapters, genres, profiles>>

\* ------------------------------------------- Reader: the comment list
\* The Reader whose comment list is followed: r3, where B is logged in.
FeedSession == "r3"

\* useState<Comment[]>([]) before the mount effect has run; `loads` are the
\* loadComments requests under way, `before` the comments committed when the
\* channel was joined, `delivered` the INSERT events the channel has handed
\* to the callback.
MountedFeed == [comments |-> <<>>, channel |-> "none", before |-> {},
                delivered |-> {}, loads |-> {}]

\* .eq('manga_id', manga.id).eq('chapter', chapterNumber)
ThreadComments(t) == {c \in comments : c.manga_id = t[1] /\ c.chapter = t[2]}

\* The ids of a select's rows, .order('created_at', { ascending: false })
NewestFirst(rows) ==
    [i \in DOMAIN ByCreatedAtDesc(rows) |-> ByCreatedAtDesc(rows)[i].id]

\* The mount effect, as far as the comments go: the cleanup of the run before
\* (removeAllChannels), loadComments() up to its request, and, with a user,
\* subscribeToComments(). It runs at mount and again whenever manga, chapter,
\* user, readingMode, showReportModal or showComments changes; the component's
\* state, the list included, stays.
MountEffect ==
    /\ Cardinality(feed.loads) < MaxInflight
    /\ feed' = [feed EXCEPT
                  !.channel = IF ReaderUser(FeedSession) # NULL THEN "joining"
                              ELSE "none",
                  !.before = {},
                  !.delivered = {},
                  !.loads = @ \cup {[phase |-> "sent", data |-> <<>>]}]
    /\ UNCHANGED <<vars_but_components, pager, details, directory>>

\* The realtime server joins the channel: it sends the inserts committed from
\* now on to those who may select the row (everybody, for comments).
JoinChannel ==
    /\ feed.channel = "joining"
    /\ feed' = [feed EXCEPT
                  !.channel = "joined",
                  !.before = {c.id : c \in ThreadComments(reader[FeedSession].thread)}]
    /\ UNCHANGED <<vars_but_components, pager, details, directory>>

\* The store runs the select of a loadComments request.
LoadCommentsSelect ==
    \E l \in feed.loads :
        /\ l.phase = "sent"
        /\ feed' = [feed EXCEPT !.loads = (@ \ {l}) \cup
                      {[phase |-> "answered",
                        data |-> NewestFirst(ThreadComments(reader[FeedSession].thread))]}]
        /\ UNCHANGED <<vars_but_components, pager, details, directory>>

\* loadComments, after its await: setComments(data || [])
LoadCommentsDone ==
    \E l \in feed.loads :
        /\ l.phase = "answered"
        /\ feed' = [feed EXCEPT !.loads = @ \ {l}, !.comments = l.data]
        /\ UNCHANGED <<vars_but_components, pager, details, directory>>

\* The channel's callback for the INSERT event of comment id:
\* setComments(prev => [payload.new, ...prev])
OnCommentInsert(id) ==
    /\ feed.channel = "joined"
    /\ id \in {c.id : c \in ThreadComments(reader[FeedSession].thread)}
    /\ id \notin feed.before \cup feed.delivered
    /\ feed' = [feed EXCEPT !.delivered = @ \cup {id}, !.comments = <<id>> \o @]
    /\ UNCHANGED <<vars_but_components, pager, details, directory>>

\* ------------------------------------ Reader: pages, modes and auto-scroll
MaxPages == 2        \* pages of a chapter
MaxTimers == 3       \* window.setInterval calls in a run
ScrollSpeeds == {1, 2}                 \* values of the range input

\* The Reader after its first render and its mount effect: loadChapter is
\* under way, handleKeyPress is the one made in that render (`keyPages` is the
\* length of `pages` it has closed over), no interval is running
\* (`timers` are the ids of the running intervals, `hasCleanup` whether the last
\* run of the auto-scroll effect returned its cleanup).
MountedPager ==
    [pages |-> 0, currentPage |-> 0, loading |-> TRUE, readingMode |-> "cascade",
     autoScroll |-> FALSE, scrollSpeed |-> 1, showComments |-> FALSE,
     showReportModal |-> FALSE, keyPages |-> 0, chapterLoads |-> TRUE,
     timers |-> {}, scrollIntervalRef |-> 0, lastTimer |-> 0, hasCleanup |-> FALSE]

Max(a, b) == IF a >= b THEN a ELSE b
Min(a, b) == IF a <= b THEN a ELSE b

\* window.clearInterval(scrollIntervalRef.current), under `if (... .current)`
ClearInterval(p) == [p EXCEPT !.timers = @ \ {p.scrollIntervalRef}]

\* contentRef.current after a render: the cascade container is rendered
ContentRef(p) == ~p.loading /\ p.readingMode = "cascade"

MountDeps(p) == <<p.readingMode, p.showReportModal, p.showComments>>
ScrollDeps(p) == <<p.autoScroll, p.scrollSpeed, p.readingMode>>

\* The cleanup of the mount effect, then the effect again: the interval of the
\* ref is cleared, loadChapter is called, a new handleKeyPress is registered
RerunMountEffect(p) ==
    [ClearInterval(p) EXCEPT !.chapterLoads = TRUE, !.keyPages = p.pages]

\* The cleanup of the auto-scroll effect, if its last run returned one
CleanupAutoScroll(p) == IF p.hasCleanup THEN ClearInterval(p) ELSE p

\* The body of the auto-scroll effect
RunAutoScroll(p) ==
    IF p.autoScroll /\ p.readingMode = "cascade" /\ ContentRef(p)
    THEN [p EXCEPT !.timers = @ \cup {p.lastTimer + 1},
                   !.scrollIntervalRef = p.lastTimer + 1,
                   !.lastTimer = p.lastTimer + 1,
                   !.hasCleanup = TRUE]
    ELSE [p EXCEPT !.hasCleanup = FALSE]

\* The render that follows the state updates of a handler, and the effects
\* whose dependencies have changed: cleanups first, then the bodies
Commit(old, new) ==
    LET mount == MountDeps(old) # MountDeps(new)
        scroll == ScrollDeps(old) # ScrollDeps(new)
        a == IF mount THEN ClearInterval(new) ELSE new
        b == IF scroll THEN CleanupAutoScroll(a) ELSE a
        c == IF mount THEN [b EXCEPT !.chapterLoads = TRUE, !.keyPages = new.pages]
             ELSE b
    IN  IF scroll THEN RunAutoScroll(c) ELSE c

\* Every action below leaves all but the Reader's state alone.
Renders(new) ==
    /\ Commit(pager, new).lastTimer <= MaxTimers
    /\ pager' = Commit(pager, new)
    /\ UNCHANGED <<vars_but_components, feed, details, directory>>

\* What loadChapter gets: an error, or the page list of the chapter row
ChapterOutcomes == [error : {NULL, "PGRST116"}, pages : 0..MaxPages]

\* loadChapter after its awaits; `last` tells whether it was the only call of
\* loadChapter still under way
LoadChapterDone(outcome, last) ==
    /\ pager.chapterLoads
    /\ outcome.error # NULL => outcome.pages = 0
    /\ pager' = [pager EXCEPT !.pages = IF outcome.error = NULL THEN outcome.pages
                                        ELSE @,
                              !.loading = FALSE,
                              !.chapterLoads = ~last]
    /\ toast' = IF outcome.error = NULL THEN toast
                ELSE Toast("reader", "Failed to load chapter")
    /\ UNCHANGED <<profiles, comment_subscriptions, storeOfComments, storeOfReports,
                   reader, panel, user_library, api, catalogAndAuth, feed, details,
                   directory>>

\* handlePageChange(direction) with the `pages` its closure holds
PageAfter(direction, currentPage, length) ==
    IF direction = "prev" THEN Max(0, currentPage - 1)
    ELSE Min(length - 1, currentPage + 1)

\* a click on the previous / next button of the paginated controls
ClickPageChange(direction) ==
    /\ ~pager.loading /\ pager.readingMode = "paginated"
    /\ direction = "prev" => pager.currentPage # 0
    /\ direction = "next" => pager.currentPage # pager.pages - 1
    /\ Renders([pager EXCEPT !.currentPage =
                   PageAfter(direction, pager.currentPage, pager.pages)])

\* handleKeyPress, ArrowLeft / ArrowRight
KeyArrow(direction) ==
    /\ pager.readingMode = "paginated"
    /\ Renders([pager EXCEPT !.currentPage =
                   PageAfter(direction, pager.currentPage, pager.keyPages)])

\* handleKeyPress, Spacebar
KeySpace ==
    /\ pager.readingMode = "cascade"
    /\ Renders([pager EXCEPT !.autoScroll = ~@])

\* handleKeyPress, Escape
KeyEscape ==
    /\ pager.showReportModal \/ pager.showComments
    /\ Renders(IF pager.showReportModal THEN [pager EXCEPT !.showReportModal = FALSE]
               ELSE [pager EXCEPT !.showComments = FALSE])

\* the play / pause button: setAutoScroll(!autoScroll)
ClickAutoScroll ==
    /\ ~pager.loading /\ pager.readingMode = "cascade"
    /\ Renders([pager EXCEPT !.autoScroll = ~@])

\* the range input of the speed control
ChangeScrollSpeed(speed) ==
    /\ ~pager.loading /\ pager.readingMode = "cascade" /\ pager.autoScroll
    /\ speed # pager.scrollSpeed
    /\ Renders([pager EXCEPT !.scrollSpeed = speed])

\* toggleReadingMode
ToggleReadingMode ==
    /\ ~pager.loading
    /\ Renders(ClearInterval(
          [pager EXCEPT !.readingMode = IF @ = "paginated" THEN "cascade"
                                        ELSE "paginated",
                        !.currentPage = 0,
                        !.autoScroll = FALSE]))

\* the comments button: setShowComments(!showComments)
ClickComments ==
    /\ ~pager.loading
    /\ Renders([pager EXCEPT !.showComments = ~@])

\* the report button of the top bar, and the dialog's cancel button
ClickReport(open) ==
    /\ ~pager.loading
    /\ pager.showReportModal # open
    /\ Renders([pager EXCEPT !.showReportModal = open])

\* the callback of a running interval when the page is scrolled to the bottom
IntervalAtBottom ==
    /\ pager.timers # {}
    /\ Renders(ClearInterval([pager EXCEPT !.autoScroll = FALSE]))

\* ------------------------------------------- Directory: the catalog list
MaxCatalogRequests == 2   \* loadMangas requests a Directory has awaiting at once

DirectoryStatuses == {"all", "ongoing", "completed"}
SortOptions == {"Latest", "Title A-Z"}       \* two of the four sortOptions
GenreOptions == {"action"}                   \* genres.name

\* The rows of mangas, with their manga_genres, that the queries read; title
\* is the rank of the title in alphabetical order.
Shelf == {[id |-> "X", status |-> "ongoing", genres |-> {"action"}, title |-> 1,
           created_at |-> 1],
          [id |-> "Y", status |-> "completed", genres |-> {"drama"}, title |-> 2,
           created_at |-> 2]}

\* query.order(...): whether row r comes before row q
Before(sortBy, r, q) ==
    IF sortBy = "Latest" THEN r.created_at > q.created_at ELSE r.title < q.title

RECURSIVE Ordered(_, _)
Ordered(rows, sortBy) ==
    IF rows = {} THEN <<>>
    ELSE LET first == CHOOSE r \in rows : \A q \in rows \ {r} : Before(sortBy, r, q)
         IN  <<first>> \o Ordered(rows \ {first}, sortBy)

\* from('mangas').select(...).eq('status', selectedStatus).order(...)
SelectMangas(selectedStatus, sortBy) ==
    Ordered({r \in Shelf : selectedStatus = "all" \/ r.status = selectedStatus}, sortBy)

\* data.filter(manga => manga.manga_genres.some(...)), then the ids of the
\* transformed rows
FilterByGenres(data, selectedGenres) ==
    LET Keep(r) == selectedGenres = {} \/ r.genres \cap selectedGenres # {}
        kept == SelectSeq(data, Keep)
    IN  [i \in DOMAIN kept |-> kept[i].id]

\* loadMangas of the render with the filters of d, up to its await
MangasRequest(d, error) ==
    [selectedStatus |-> d.selectedStatus, sortBy |-> d.sortBy,
     selectedGenres |-> d.selectedGenres,
     data |-> IF error = NULL THEN SelectMangas(d.selectedStatus, d.sortBy) ELSE <<>>,
     error |-> error]

\* The Directory after its first render and its effect: loadGenres and
\* loadMangas are under way
MountedDirectory ==
    LET d == [mangas |-> <<>>, loading |-> TRUE, selectedGenres |-> {},
              selectedStatus |-> "all", sortBy |-> "Latest", genres |-> {}]
    IN  [mangas |-> d.mangas, loading |-> d.loading,
         selectedGenres |-> d.selectedGenres, selectedStatus |-> d.selectedStatus,
         sortBy |-> d.sortBy, genres |-> d.genres, genreLoads |-> TRUE,
         inflight |-> {MangasRequest(d, NULL)}]

\* The effect on [selectedGenres, selectedStatus, sortBy] after the filters of
\* d have changed: loadGenres(); loadMangas(), which starts with setLoading(true)
FiltersChanged(d, error) ==
    /\ Cardinality(directory.inflight) < MaxCatalogRequests
    /\ directory' = [d EXCEPT !.loading = TRUE, !.genreLoads = TRUE,
                              !.inflight = @ \cup {MangasRequest(d, error)}]
    /\ UNCHANGED <<vars_but_components, feed, pager, details>>

\* the status radio buttons
SelectStatus(status, error) ==
    /\ status # directory.selectedStatus
    /\ FiltersChanged([directory EXCEPT !.selectedStatus = status], error)

\* a genre button
ToggleGenre(genre, error) ==
    /\ genre \in directory.genres
    /\ FiltersChanged([directory EXCEPT !.selectedGenres =
                          IF genre \in @ THEN @ \ {genre} ELSE @ \cup {genre}], error)

\* the sort select
SelectSort(sortBy, error) ==
    /\ sortBy # directory.sortBy
    /\ FiltersChanged([directory EXCEPT !.sortBy = sortBy], error)

\* loadGenres after its await; `last` tells whether it was the only call of
\* loadGenres still under way
LoadGenresDone(error, last) ==
    /\ directory.genreLoads
    /\ directory' = [directory EXCEPT !.genres = IF error = NULL THEN GenreOptions ELSE @,
                                      !.genreLoads = ~last]
    /\ toast' = IF error = NULL THEN toast ELSE Toast("directory", "Failed to load genres")
    /\ UNCHANGED <<profiles, comment_subscriptions, storeOfComments, storeOfReports,
                   reader, panel, user_library, api, catalogAndAuth, feed, pager,
                   details>>

\* loadMangas after its await
LoadMangasDone ==
    \E r \in directory.inflight :
        /\ directory' = [directory EXCEPT
              !.mangas = IF r.error = NULL THEN FilterByGenres(r.data, r.selectedGenres)
                         ELSE @,
              !.loading = FALSE,
              !.inflight = @ \ {r}]
        /\ toast' = IF r.error = NULL THEN toast
                    ELSE Toast("directory", "Failed to load mangas")
        /\ UNCHANGED <<profiles, comment_subscriptions, storeOfComments, storeOfReports,
                       reader, panel, user_library, api, catalogAndAuth, feed, pager,
                       details>>

\* ------------------------------------- MangaDetails: the library status
\* The component followed is the one B has open on manga X.
DetailsUser == "B"
DetailsManga == "X"

\* useState<LibraryStatus | null>(null)
NoLibraryStatus == [status |-> NULL, current_chapter |-> 0]
MountedDetails == [libraryStatus |-> NoLibraryStatus, inflight |-> {}]

\* libraryStatus?.current_chapter || 1
CurrentChapterOr1(libraryStatus) ==
    IF libraryStatus = NoLibraryStatus \/ libraryStatus.current_chapter = 0
    THEN 1 ELSE libraryStatus.current_chapter

\* What a request of the component awaits.
DetailsResponse(op, data, error) == [op |-> op, data |-> data, error |-> error]

DetailsCanSend(op) ==
    Cardinality({r \in details.inflight : r.op = op}) < MaxInflight

\* loadLibraryStatus, up to its await (run by the mount effect): the row of
\* (user, manga), if any, as maybeSingle() returns it
LoadLibraryStatus ==
    LET found == {r \in SelectLibrary(DetailsUser, DetailsUser) :
                     r.manga_id = DetailsManga}
        data == IF found = {} THEN NoLibraryStatus
                ELSE LET r == CHOOSE r \in found : TRUE
                     IN  [status |-> r.status, current_chapter |-> r.current_chapter]
    IN  /\ DetailsCanSend("load")
        /\ details' = [details EXCEPT !.inflight =
                          @ \cup {DetailsResponse("load", data, NULL)}]
        /\ UNCHANGED <<vars_but_components, feed, pager, directory>>

\* loadLibraryStatus, after its await: setLibraryStatus(data || null)
LoadLibraryStatusDone ==
    \E r \in details.inflight :
        /\ r.op = "load"
        /\ details' = [details EXCEPT !.inflight = @ \ {r}, !.libraryStatus = r.data]
        /\ UNCHANGED <<vars_but_components, feed, pager, directory>>

\* addToLibrary(status), up to its await: the upsert of (user, manga) with the
\* current chapter of the component's libraryStatus
AddToLibrary(status) ==
    LET row == [user_id |-> DetailsUser, manga_id |-> DetailsManga, status |-> status,
                current_chapter |-> CurrentChapterOr1(details.libraryStatus)]
        res == UpsertLibrary(DetailsUser, row)
    IN  /\ DetailsCanSend("add")
        /\ user_library' = res.table
        /\ details' = [details EXCEPT !.inflight = @ \cup
              {DetailsResponse("add",
                               [status |-> status,
                                current_chapter |-> row.current_chapter],
                               res.error)}]
        /\ UNCHANGED <<profiles, comment_subscriptions, storeOfComments, storeOfReports,
                       reader, panel, api, toast, catalogAndAuth, feed, pager,
                       directory>>

\* addToLibrary, after its await: setLibraryStatus({status, current_chapter})
\* unless the upsert failed
AddToLibraryDone ==
    \E r \in details.inflight :
        /\ r.op = "add"
        /\ details' = [details EXCEPT
                          !.inflight = @ \ {r},
                          !.libraryStatus = IF r.error = NULL THEN r.data ELSE @]
        /\ UNCHANGED <<vars_but_components, feed, pager, directory>>

\* ------------------------------------------------------------------- Init
Init ==
    /\ profiles = [u \in Users |->
                     [is_admin |-> u \in {"A", "D"},
                      username |-> IF u = "B" THEN <<"b">> ELSE LocalPart(Email(u))]]
    /\ comment_subscriptions = [k \in SubKeys |-> 0]
    /\ comments = {}
    /\ comment_notifications = {}
    /\ commentTx = [id \in CommentIds |-> NoTx]
    /\ manga_reports = {}
    /\ admin_notifications = {}
    /\ panel = [p \in PanelSessions |-> MountedPanel]
    /\ reader = [s \in ReaderSessions |->
                    MountedReader(IF s = "r2" THEN <<"Y", 1>> ELSE <<"X", 3>>)]
    /\ user_library = {}
    /\ api = NoResponse
    /\ toast = NoToast
    /\ mangas = {}
    /\ chapters = {}
    /\ genres = {}
    /\ auth = [t \in Tabs |-> InitialAuth]
    /\ feed = MountedFeed
    /\ pager = MountedPager
    /\ details = MountedDetails
    /\ directory = MountedDirectory

\* --------------------------------------------- subscribe and unsubscribe
\* r1 and r3 stay on their chapter; r2, the second session of r1's user, moves
\* between the chapters.
NextSubs ==
    \/ \E t \in Threads : OpenChapter("r2", t)
    \/ \E s \in ReaderSessions : CheckSubscription(s)
    \/ \E s \in ReaderSessions : CheckSubscriptionDone(s)
    \/ \E s \in ReaderSessions : ToggleSubscription(s)
    \/ \E s \in ReaderSessions : ToggleSubscriptionDone(s)

SpecSubs == Init /\ [][NextSubs]_vars

\* ------------------ comment posts interleaved with (un)subscribe requests
\* r1 and r3, two users on one chapter, subscribe and unsubscribe; all three
\* sessions post.
NextComments ==
    \/ \E s \in {"r1", "r3"} : ToggleSubscription(s)
    \/ \E s \in {"r1", "r3"} : ToggleSubscriptionDone(s)
    \/ \E s \in ReaderSessions : HandleComment(s, " hi ")
    \/ \E id \in CommentIds : OnCommentCreated(id)
    \/ \E id \in CommentIds : EndCommentTx(id)

SpecComments == Init /\ [][NextComments]_vars

\* ------------------------------------------------- report submissions
NextSubmit ==
    \/ \E s \in ReaderSessions, issue \in IssueTypes : SubmitReport(s, issue)
    \/ \E s \in ReaderSessions : SubmitReportDone(s)

SpecSubmit == Init /\ [][NextSubmit]_vars

\* ------------- triage of the reports by two administrators' panels
\* One report, submitted by r1, is under triage.
NextTriage ==
    \/ manga_reports = {} /\ SubmitReport("r1", "missing")
    \/ SubmitReportDone("r1")
    \/ \E p \in PanelSessions : LoadReports(p)
    \/ \E p \in PanelSessions : LoadReportsDone(p)
    \/ \E p \in PanelSessions, id \in 1..MaxReports,
          status \in {"in_progress", "resolved", "rejected"} :
            HandleReportStatus(p, id, status)
    \/ \E p \in PanelSessions : HandleReportStatusDone(p)

SpecTriage == Init /\ [][NextTriage]_vars

\* ------ the notifications of two reports, read by two administrators' panels
\* r1 submits a report while at most one is stored.
NextAdminNotifs ==
    \/ (\A r, q \in manga_reports : r = q) /\ SubmitReport("r1", "missing")
    \/ SubmitReportDone("r1")
    \/ \E p \in PanelSessions : LoadNotifications(p)
    \/ \E p \in PanelSessions : LoadNotificationsDone(p)
    \/ \E p \in PanelSessions, id \in 1..MaxReports : MarkNotificationAsRead(p, id)
    \/ \E p \in PanelSessions : MarkNotificationAsReadDone(p)

SpecAdminNotifs == Init /\ [][NextAdminNotifs]_vars

\* ----------- requests of any principal on the relations with per-user rows
\* A comment written by a role that bypasses row-level security has notified
\* A and B (a comment written through the client notifies nobody).
InitOwnRows ==
    /\ profiles = [u \in Users |->
                     [is_admin |-> u \in {"A", "D"},
                      username |-> IF u = "B" THEN <<"b">> ELSE LocalPart(Email(u))]]
    /\ comment_subscriptions = [k \in SubKeys |-> 0]
    /\ comments = {[id |-> 1, manga_id |-> "X", chapter |-> 3, user_id |-> "D",
                     content |-> "hi"]}
    /\ comment_notifications =
          {[id |-> <<1, u, 1>>, user_id |-> u, comment_id |-> 1, read |-> FALSE]
           : u \in {"A", "B"}}
    /\ commentTx = [id \in CommentIds |-> NoTx]
    /\ manga_reports = {}
    /\ admin_notifications = {}
    /\ panel = [p \in PanelSessions |-> MountedPanel]
    /\ reader = [s \in ReaderSessions |-> MountedReader(<<"X", 3>>)]
    /\ user_library = {}
    /\ api = NoResponse
    /\ toast = NoToast
    /\ mangas = {}
    /\ chapters = {}
    /\ genres = {}
    /\ auth = [t \in Tabs |-> InitialAuth]
    /\ feed = MountedFeed
    /\ pager = MountedPager
    /\ details = MountedDetails
    /\ directory = MountedDirectory

NextOwnRows ==
    \/ \E uid \in Principals, f \in UserFilters : ReadLibrary(uid, f)
    \/ \E uid \in Principals, f \in UserFilters : ReadLibraryView(uid, f)
    \/ \E uid \in Principals, row \in LibraryRows : WriteLibrary(uid, row)
    \/ \E uid \in Principals, f \in UserFilters : RemoveLibrary(uid, f)
    \/ \E uid \in Principals, key \in OwnRowKeys : ReadSubscription(uid, key)
    \/ \E uid \in Principals, key \in OwnRowKeys : WriteSubscription(uid, key)
    \/ \E uid \in Principals, key \in OwnRowKeys : RemoveSubscription(uid, key)
    \/ \E uid \in Principals, f \in UserFilters : ReadCommentNotifications(uid, f)
    \/ \E uid \in Principals, f \in UserFilters : MarkCommentNotifications(uid, f)
    \/ \E uid \in Principals, f \in UserFilters : RemoveCommentNotifications(uid, f)

SpecOwnRows == InitOwnRows /\ [][NextOwnRows]_vars

\* ------------------------------------ requests of any principal on comments
NextCommentAccess ==
    \/ \E uid \in Principals : ReadComments(uid)
    \/ \E uid \in Principals, author \in {"A", "B"} : WriteComment(uid, author)
    \/ \E uid \in Principals, id \in CommentIds : EditComment(uid, id)
    \/ \E uid \in Principals, id \in CommentIds : EraseComment(uid, id)

SpecCommentAccess == Init /\ [][NextCommentAccess]_vars

\* ------------------------------ requests of any principal on the catalog
NextCatalog ==
    \/ \E uid \in Principals : ReadMangas(uid)
    \/ \E uid \in Principals, id \in Mangas, creator \in Creators :
          WriteManga(uid, id, creator)
    \/ \E uid \in Principals, id \in Mangas, creator \in Creators :
          EditManga(uid, id, creator)
    \/ \E uid \in Principals, id \in Mangas : EraseManga(uid, id)
    \/ \E uid \in Principals : ReadChapters(uid)
    \/ \E uid \in Principals, id \in Mangas, n \in ChapterNumbers :
          WriteChapter(uid, id, n)
    \/ \E uid \in Principals, id \in Mangas, n \in ChapterNumbers :
          EditChapter(uid, id, n)
    \/ \E uid \in Principals, id \in Mangas, n \in ChapterNumbers :
          EraseChapter(uid, id, n)
    \/ \E uid \in Principals : ReadGenres(uid)
    \/ \E uid \in Principals, name \in GenreNames : WriteGenre(uid, name)
    \/ \E uid \in Principals, name \in GenreNames : EditGenre(uid, name)
    \/ \E uid \in Principals, name \in GenreNames : EraseGenre(uid, name)

SpecCatalog == Init /\ [][NextCatalog]_vars

\* ------------------------------ requests of any principal on the profiles
NextProfiles ==
    \/ \E uid \in Principals, f \in UserFilters : ReadProfile(uid, f)
    \/ \E uid \in Principals, f \in UserFilters, admin \in BOOLEAN :
          EditProfile(uid, f, admin)
    \/ \E uid \in Principals, f \in UserFilters : RemoveProfile(uid, f)
    \/ \E uid \in Principals, owner \in Users : WriteProfile(uid, owner)

SpecProfiles == Init /\ [][NextProfiles]_vars

\* ----------------------------- the first session of two users, in two tabs
\* D has a profile; A and B, whose e-mail has the local part of D's, have none.
\* App's effect calls fetchUserProfile from getSession().then and from the
\* onAuthStateChange callback.
InitSignIn ==
    /\ profiles = [u \in {"D"} |->
                     [is_admin |-> TRUE, username |-> LocalPart(Email(u))]]
    /\ comment_subscriptions = [k \in SubKeys |-> 0]
    /\ comments = {}
    /\ comment_notifications = {}
    /\ commentTx = [id \in CommentIds |-> NoTx]
    /\ manga_reports = {}
    /\ admin_notifications = {}
    /\ panel = [p \in PanelSessions |-> MountedPanel]
    /\ reader = [s \in ReaderSessions |-> MountedReader(<<"X", 3>>)]
    /\ user_library = {}
    /\ api = NoResponse
    /\ toast = NoToast
    /\ mangas = {}
    /\ chapters = {}
    /\ genres = {}
    /\ auth = [t \in Tabs |-> InitialAuth]
    /\ feed = MountedFeed
    /\ pager = MountedPager
    /\ details = MountedDetails
    /\ directory = MountedDirectory

NextSignIn ==
    \/ \E t \in Tabs, c \in CallSites : FetchUserProfile(t, c, NULL)
    \/ \E t \in Tabs, c \in CallSites : FetchUserProfileSelected(t, c)
    \/ \E t \in Tabs, c \in CallSites : FetchUserProfileInserted(t, c)
    \/ \E t \in Tabs, c \in CallSites : FetchUserProfileCreated(t, c)

SpecSignIn == InitSignIn /\ [][NextSignIn]_vars

\* ----- the badge of one administrator's panel while reports come in
NextBadge ==
    \/ SubmitReport("r1", "missing")
    \/ SubmitReportDone("r1")
    \/ LoadNotifications("p1")
    \/ LoadNotificationsDone("p1")
    \/ \E id \in 1..MaxReports : OnNotificationInsert("p1", id)
    \/ \E id \in 1..MaxReports : MarkNotificationAsRead("p1", id)
    \/ MarkNotificationAsReadDone("p1")

SpecBadge == Init /\ [][NextBadge]_vars

\* ------------------ comment posts of every session with every text
NextPost ==
    \/ \E t \in Threads : OpenChapter("r2", t)
    \/ \E s \in ReaderSessions, text \in CommentTexts : HandleComment(s, text)
    \/ \E id \in CommentIds : OnCommentCreated(id)
    \/ \E id \in CommentIds : EndCommentTx(id)

SpecPost == Init /\ [][NextPost]_vars

\* ------- requests that fail: subscription collisions of two sessions of one
\* user, and profile fetches whose request may fail on the way
RequestErrors == {NULL, "network"}

NextFailures ==
    \/ \E s \in {"r1", "r2"} : ToggleSubscription(s)
    \/ \E s \in {"r1", "r2"} : ToggleSubscriptionDone(s)
    \/ \E t \in Tabs, c \in CallSites, error \in RequestErrors :
          FetchUserProfile(t, c, error)
    \/ \E t \in Tabs, c \in CallSites : FetchUserProfileSelected(t, c)
    \/ \E t \in Tabs, c \in CallSites : FetchUserProfileInserted(t, c)
    \/ \E t \in Tabs, c \in CallSites : FetchUserProfileCreated(t, c)

SpecFailures == InitSignIn /\ [][NextFailures]_vars

\* ------------------ a first session in which Auth's sign-up also runs
UserNames == {<<>>, <<"n">>}           \* the username typed in the form, or none

NextSignUp ==
    \/ \E t \in Tabs, c \in CallSites : FetchUserProfile(t, c, NULL)
    \/ \E t \in Tabs, c \in CallSites : FetchUserProfileSelected(t, c)
    \/ \E t \in Tabs, c \in CallSites : FetchUserProfileInserted(t, c)
    \/ \E t \in Tabs, c \in CallSites : FetchUserProfileCreated(t, c)
    \/ \E t \in Tabs, username \in UserNames : SignUp(t, username)
    \/ \E t \in Tabs : SignUpDone(t)

SpecSignUp == InitSignIn /\ [][NextSignUp]_vars

\* ------------------------------- the start of App, with a session or none
InitStart ==
    /\ profiles = [u \in {"D"} |->
                     [is_admin |-> TRUE, username |-> LocalPart(Email(u))]]
    /\ comment_subscriptions = [k \in SubKeys |-> 0]
    /\ comments = {}
    /\ comment_notifications = {}
    /\ commentTx = [id \in CommentIds |-> NoTx]
    /\ manga_reports = {}
    /\ admin_notifications = {}
    /\ panel = [p \in PanelSessions |-> MountedPanel]
    /\ reader = [s \in ReaderSessions |-> MountedReader(<<"X", 3>>)]
    /\ user_library = {}
    /\ api = NoResponse
    /\ toast = NoToast
    /\ mangas = {}
    /\ chapters = {}
    /\ genres = {}
    /\ auth \in [Tabs -> {[InitialAuth EXCEPT !.session = b] : b \in BOOLEAN}]
    /\ feed = MountedFeed
    /\ pager = MountedPager
    /\ details = MountedDetails
    /\ directory = MountedDirectory

NextStart ==
    \/ \E t \in Tabs, c \in CallSites, error \in RequestErrors :
          FetchUserProfile(t, c, error)
    \/ \E t \in Tabs, c \in CallSites : FetchUserProfileSelected(t, c)
    \/ \E t \in Tabs, c \in CallSites : FetchUserProfileInserted(t, c)
    \/ \E t \in Tabs, c \in CallSites : FetchUserProfileCreated(t, c)
    \/ \E t \in Tabs, c \in CallSites : AppEffectWithoutSession(t, c)

SpecStart == InitStart /\ [][NextStart]_vars

\* Every promise of the effect is settled in the end: the event loop runs
\* each callback that is ready.
SpecStartFair == SpecStart /\ WF_vars(NextStart)

\* ----------------------------------------- sessions that end with a logout
NextLogout ==
    \/ \E t \in Tabs, c \in CallSites : FetchUserProfile(t, c, NULL)
    \/ \E t \in Tabs, c \in CallSites : FetchUserProfileSelected(t, c)
    \/ \E t \in Tabs, c \in CallSites : FetchUserProfileInserted(t, c)
    \/ \E t \in Tabs, c \in CallSites : FetchUserProfileCreated(t, c)
    \/ \E t \in Tabs, c \in CallSites : AppEffectWithoutSession(t, c)
    \/ \E t \in Tabs : HandleLogout(t)
    \/ \E t \in Tabs : HandleLogoutDone(t)
    \/ \E t \in Tabs : Login(t)

SpecLogout == InitSignIn /\ [][NextLogout]_vars

\* --------------------------------------- a Reader whose pages are turned
Directions == {"prev", "next"}

NextPages ==
    \/ \E outcome \in ChapterOutcomes, last \in BOOLEAN : LoadChapterDone(outcome, last)
    \/ \E direction \in Directions : ClickPageChange(direction)
    \/ \E direction \in Directions : KeyArrow(direction)
    \/ ToggleReadingMode
    \/ ClickComments

SpecPages == Init /\ [][NextPages]_vars

\* ------------------------------------------ a Reader that scrolls by itself
NextAutoScroll ==
    \/ \E outcome \in ChapterOutcomes, last \in BOOLEAN : LoadChapterDone(outcome, last)
    \/ KeySpace
    \/ KeyEscape
    \/ ClickAutoScroll
    \/ \E speed \in ScrollSpeeds : ChangeScrollSpeed(speed)
    \/ ToggleReadingMode
    \/ ClickComments
    \/ \E open \in BOOLEAN : ClickReport(open)
    \/ IntervalAtBottom

SpecAutoScroll == Init /\ [][NextAutoScroll]_vars

\* ------------------------------ a Directory whose filters are changed
NextDirectory ==
    \/ \E status \in DirectoryStatuses : SelectStatus(status, NULL)
    \/ \E genre \in GenreOptions : ToggleGenre(genre, NULL)
    \/ \E sortBy \in SortOptions : SelectSort(sortBy, NULL)
    \/ \E last \in BOOLEAN : LoadGenresDone(NULL, last)
    \/ LoadMangasDone

SpecDirectory == Init /\ [][NextDirectory]_vars

\* ------------- the comment list of a Reader while two users post comments
NextFeed ==
    \/ MountEffect
    \/ JoinChannel
    \/ LoadCommentsSelect
    \/ LoadCommentsDone
    \/ \E id \in CommentIds : OnCommentInsert(id)
    \/ \E s \in {"r1", "r3"} : HandleComment(s, " hi ")
    \/ \E id \in CommentIds : OnCommentCreated(id)
    \/ \E id \in CommentIds : EndCommentTx(id)

SpecFeed == Init /\ [][NextFeed]_vars

\* -------- addToLibrary of B for manga X, whose reading progress may already
\* be stored (a request of B sent past the component stores chapter 3)
NextLibrary ==
    \/ \E status \in LibraryStatuses :
          WriteLibrary(DetailsUser, [user_id |-> DetailsUser, manga_id |-> DetailsManga,
                                     status |-> status, current_chapter |-> 3])
    \/ LoadLibraryStatus
    \/ LoadLibraryStatusDone
    \/ \E status \in LibraryStatuses : AddToLibrary(status)
    \/ AddToLibraryDone

SpecLibrary == Init /\ [][NextLibrary]_vars

\* ---------- requests of any principal on reports and admin notifications
NextReportAccess ==
    \/ \E uid \in Principals, owner \in {"A", "B"} : WriteReport(uid, owner)
    \/ \E uid \in Principals : ReadReports(uid)
    \/ \E uid \in Principals, id \in 1..MaxReports : ChangeReport(uid, id, "resolved")
    \/ \E uid \in Principals : ReadAdminNotifications(uid)
    \/ \E uid \in Principals, id \in 1..MaxReports : MarkAdminNotification(uid, id)
    \/ \E uid \in Principals, id \in 1..MaxReports : RemoveAdminNotification(uid, id)

SpecReportAccess == Init /\ [][NextReportAccess]_vars

Committed(id) == commentTx[id].phase = "committed"
NotificationsOf(id) == {n \in comment_notifications : n.comment_id = id}

\* The users subscribed to a comment's (manga, chapter).
SubscribersOf(row) ==
    {k[1] : k \in {q \in SubKeys : /\ comment_subscriptions[q] >= 1
                                    /\ q[2] = row.manga_id
                                    /\ q[3] = row.chapter}}

\* C1: when the trigger runs for an inserted comment it succeeds and produces
\* exactly one notification row per user subscribed to the comment's
\* (manga, chapter) at that moment, the author excepted.
C1_FanOutIsSubscribersMinusAuthor ==
    [][\A id \in CommentIds :
          OnCommentCreated(id) =>
            LET row == commentTx[id].row
                out == commentTx'[id].fanout
            IN  /\ commentTx'[id].phase = "triggered"
                /\ {n.user_id : n \in out} = SubscribersOf(row) \ {row.user_id}
                /\ \A n, m \in out : n.user_id = m.user_id => n = m]_vars

ReaderKey(s) == SubKey(ReaderUser(s), reader[s].thread)

Subscribes(s) == ToggleSubscription(s) /\ ~reader[s].isSubscribed
Unsubscribes(s) == ToggleSubscription(s) /\ reader[s].isSubscribed

\* C5: comment_subscriptions never holds two rows for one (user, manga, chapter);
\* a subscribe request leaves exactly one row for its tuple, whether it inserted
\* the row or collided with it, and a row goes away only by an unsubscribe of
\* that tuple.
C5_OneRowPerTuple ==
    /\ [](\A k \in SubKeys : comment_subscriptions[k] <= 1)
    /\ [][/\ \A s \in ReaderSessions :
                (Subscribes(s) => comment_subscriptions'[ReaderKey(s)] = 1)
          /\ \A k \in SubKeys :
                (comment_subscriptions[k] >= 1 /\ comment_subscriptions'[k] # 1)
                    => \E q \in ReaderSessions : Unsubscribes(q) /\ ReaderKey(q) = k]_vars

\* C5 witness: a second subscribe for a tuple that already had its row has been
\* executed, and the row is there once.
C5_Witness ==
    \E s \in ReaderSessions : \E r \in reader[s].inflight :
        /\ r.op = "subscribe" /\ r.error = "23505"
        /\ comment_subscriptions[ReaderKey(s)] = 1

\* C6: a subscribe that collides with an existing row is handled as
\* already-subscribed: no error toast, and the session ends with isSubscribed.
C6_CollisionIsAlreadySubscribed ==
    [][\A s \in ReaderSessions : \A r \in reader[s].inflight :
          (/\ r.op = "subscribe" /\ r.error = "23505"
           /\ ToggleSubscriptionDone(s)
           /\ reader'[s].inflight = reader[s].inflight \ {r})
          => (/\ reader'[s].isSubscribed
              /\ SubscriptionToast(r) # "Failed to update subscription")]_vars

\* C7: an unsubscribe for a tuple that has no row returns no error and leaves
\* every row of comment_subscriptions as it was.
C7_UnsubscribeWithoutRow ==
    [][\A s \in ReaderSessions :
          (Unsubscribes(s) /\ comment_subscriptions[ReaderKey(s)] = 0)
          => (/\ comment_subscriptions' = comment_subscriptions
              /\ \E r \in reader'[s].inflight :
                    r.op = "unsubscribe" /\ r.rows = 0 /\ r.error = NULL)]_vars

\* C7 witness: such an unsubscribe has been executed while the same user held a
\* subscription to another thread.
C7_Witness ==
    \E s \in ReaderSessions : \E r \in reader[s].inflight :
        /\ r.op = "unsubscribe" /\ r.rows = 0 /\ r.error = NULL
        /\ comment_subscriptions[ReaderKey(s)] = 0
        /\ \E k \in SubKeys : k[1] = ReaderUser(s) /\ comment_subscriptions[k] = 1

\* The manga_reports row a report request asks for.
RequestedReport(s, issue, r) ==
    /\ r.manga_id = reader[s].thread[1]
    /\ r.chapter = reader[s].thread[2]
    /\ r.user_id = ReaderUser(s)
    /\ r.issue_type = issue
    /\ r.status = "pending"
    /\ r.resolved_at = NULL

\* C2: a report submitted by any authenticated user for their own identity is
\* stored: the request adds a manga_reports row with that manga, chapter,
\* reporter and issue type, status 'pending' and resolved_at null.
C2_AnyUserReportIsStored ==
    [][\A s \in ReaderSessions, issue \in IssueTypes :
          SubmitReport(s, issue) =>
            \E r \in manga_reports' \ manga_reports : RequestedReport(s, issue, r)]_vars

NotificationsOfReport(r) ==
    {n \in admin_notifications : n.data.report_id = r.id}

\* C3: every stored report has exactly one admin_notifications row, of type
\* 'manga_report', whose payload carries the report's id, manga id, chapter and
\* issue type; every notification row belongs to a stored report, so that the
\* two tables hold the same number of rows.
C3_OneNotificationPerReport ==
    /\ \A r \in manga_reports :
          /\ Cardinality(NotificationsOfReport(r)) = 1
          /\ \A n \in NotificationsOfReport(r) :
                /\ n.type = "manga_report"
                /\ n.data = [report_id |-> r.id, manga_id |-> r.manga_id,
                             chapter |-> r.chapter, issue_type |-> r.issue_type]
    /\ \A n \in admin_notifications : \E r \in manga_reports : n.data.report_id = r.id
    /\ Cardinality(admin_notifications) = Cardinality(manga_reports)

\* C3 witness: two reports are stored, on different chapters, and a third
\* request was refused.
C3_Witness ==
    /\ \E r, q \in manga_reports : r.manga_id # q.manga_id
    /\ \E s \in ReaderSessions : \E x \in reader[s].inflight :
          x.op = "report" /\ x.error # NULL

\* C8: marking a notification read leaves its row with read = true and every
\* other row as it was, returns no error, and changes nothing at all when the
\* row was read already, also when two panels mark the same notification.
C8_MarkReadIdempotent ==
    [][\A p \in PanelSessions, id \in 1..MaxReports :
          MarkNotificationAsRead(p, id) =>
            /\ \A n \in admin_notifications' : n.id = id => n.read
            /\ \A n \in admin_notifications : n.id # id => n \in admin_notifications'
            /\ Cardinality(admin_notifications') = Cardinality(admin_notifications)
            /\ (\A n \in admin_notifications : n.id = id => n.read)
                  => admin_notifications' = admin_notifications
            /\ \E x \in panel'[p].inflight :
                  x.op = "markRead" /\ x.id = id /\ x.error = NULL]_vars

\* C8 witness: both panels have marked the same notification, neither has yet
\* handled its response, and the row is read.
C8_Witness ==
    \E n \in admin_notifications :
        /\ n.read
        /\ \A p \in PanelSessions : \E x \in panel[p].inflight :
              x.op = "markRead" /\ x.id = n.id /\ x.error = NULL

\* C9: a report's resolved_at is non-null exactly when its status is 'resolved'.
C9_ResolvedAtIffResolved ==
    \A r \in manga_reports : (r.resolved_at # NULL) <=> (r.status = "resolved")

\* C9 witness: a report that a panel's list still shows as resolved has since
\* been given another status, and its resolved_at is null again.
C9_Witness ==
    \E r \in manga_reports :
        /\ r.status # "resolved" /\ r.resolved_at = NULL
        /\ \E p \in PanelSessions : \E q \in panel[p].reports :
              q.id = r.id /\ q.status = "resolved" /\ q.resolved_at # NULL

OwnOnly(uid, owners) == owners \subseteq (IF uid = NULL THEN {} ELSE {uid})

\* C11: whatever relation and filter a request names, the library entries,
\* subscriptions and notifications it returns, and those it inserts, changes or
\* deletes, all have the requesting principal as their user_id.
C11_OnlyOwnRows ==
    [][/\ OwnOnly(api'.principal, api'.owners)
       /\ OwnOnly(api'.principal,
                  {r.user_id : r \in (user_library \ user_library')
                                      \cup (user_library' \ user_library)})
       /\ OwnOnly(api'.principal,
                  {k[1] : k \in {q \in SubKeys :
                      comment_subscriptions'[q] # comment_subscriptions[q]}})
       /\ OwnOnly(api'.principal,
                  {n.user_id : n \in (comment_notifications \ comment_notifications')
                        \cup (comment_notifications' \ comment_notifications)})]_vars

C13_ReportsPolicy ==
    [][/\ \A r \in manga_reports' :
            (\A q \in manga_reports : q.id # r.id)
                => (api'.principal # NULL /\ r.user_id = api'.principal)
       /\ (api'.relation = "manga_reports" /\ api'.op = "select"
                /\ ~IsAdmin(api'.principal))
            => OwnOnly(api'.principal, api'.owners)
       /\ \A q \in manga_reports :
            q \notin manga_reports' => IsAdmin(api'.principal)]_vars

\* C14: only administrators read, update or delete admin_notifications rows: a
\* request of anyone else returns no row and leaves the table as it was.
C14_AdminNotificationsPolicy ==
    [][/\ (api'.relation = "admin_notifications" /\ ~IsAdmin(api'.principal))
            => (api'.owners = {} /\ admin_notifications' = admin_notifications)
       /\ admin_notifications' # admin_notifications => IsAdmin(api'.principal)]_vars

\* C14 witness: a non-administrator has sent an update or a delete for a
\* notification that exists, and the row is still there, unread.
C14_Witness ==
    /\ api.relation = "admin_notifications" /\ api.op \in {"update", "delete"}
    /\ api.principal = "B" /\ api.owners = {}
    /\ \E n \in admin_notifications : ToString(n.id) = api.target /\ ~n.read

\* C15: every principal, the anonymous one included, reads every manga,
\* chapter and genre row; a step that inserts, changes or removes a manga row
\* is a request of an administrator or of the principal in the row's
\* created_by; one that does so to a chapter row is a request of an
\* administrator or of the created_by of the chapter's manga; one that does so
\* to a genre row is a request of an administrator.
C15_CatalogPolicy ==
    [][/\ (api'.op = "select" /\ api'.relation = "mangas")
            => (api'.owners = {g.id : g \in mangas})
       /\ (api'.op = "select" /\ api'.relation = "chapters")
            => (api'.owners = {c.manga_id : c \in chapters})
       /\ (api'.op = "select" /\ api'.relation = "genres")
            => (api'.owners = {g.name : g \in genres})
       /\ (mangas' # mangas)
            => (\/ IsAdmin(api'.principal)
                \/ \A g \in (mangas \ mangas') \cup (mangas' \ mangas) :
                      api'.principal # NULL /\ g.created_by = api'.principal)
       /\ (chapters' # chapters)
            => (\/ IsAdmin(api'.principal)
                \/ \A c \in (chapters \ chapters') \cup (chapters' \ chapters) :
                      api'.principal # NULL /\ CreatedBy(c.manga_id) = {api'.principal})
       /\ (genres' # genres) => IsAdmin(api'.principal)]_vars

\* B, who is no administrator, has added a chapter to a manga created by B
\* while another manga, created by A, and a genre are stored.
C15_Witness ==
    /\ api.principal = "B" /\ api.relation = "chapters" /\ api.op = "insert"
    /\ api.error = NULL
    /\ \E g \in mangas : g.created_by = "B" /\ g.id = api.target
    /\ \E g \in mangas : g.created_by = "A"
    /\ genres # {}

\* C16: the rows a select on profiles returns to a principal and the rows an
\* update or delete of a principal changes are rows whose user_id is that
\* principal, whatever filter the request carries; the anonymous principal
\* reads and changes none.
C16_OwnProfileOnly ==
    [][/\ (api'.relation = "profiles") => OwnOnly(api'.principal, api'.owners)
       /\ \A x \in DOMAIN profiles \cup DOMAIN profiles' :
            (x \notin DOMAIN profiles' \/ x \notin DOMAIN profiles
                \/ profiles'[x] # profiles[x])
              => (api'.principal # NULL /\ x = api'.principal)]_vars

\* B has made a request without a user_id filter that changed B's own row
\* and no other.
C16_Witness ==
    /\ api.relation = "profiles" /\ api.op = "update" /\ api.target = "any"
    /\ api.principal = "B" /\ api.owners = {"B"}
    /\ profiles["B"].is_admin /\ ~profiles["A"].is_admin

\* C17: when a call of fetchUserProfile completes, the signed-in user has a
\* profile row, the store holds the user made of that row and loading is
\* false; a row the call has created has the local part of the e-mail as its
\* username and is_admin false; a call that found a row creates none.
C17_ProfileCreatedOnce ==
    [][\A t \in Tabs, c \in CallSites :
         LET u == TabUser(t)
         IN  /\ (auth[t].call[c].pc # "done" /\ auth'[t].call[c].pc = "done")
                  => /\ u \in DOMAIN profiles'
                     /\ auth'[t].user = UserOf(u, profiles'[u])
                     /\ ~auth'[t].loading
                     /\ (auth[t].call[c].pc = "refetch")
                          => (/\ profiles'[u].username = LocalPart(Email(u))
                              /\ ~profiles'[u].is_admin)
             /\ (auth[t].call[c].pc = "select" /\ auth[t].call[c].profile # NoProfile)
                  => (profiles' = profiles)]_vars

\* C18: in every panel the badge count unreadCount is the number of unread
\* entries of the panel's notification list, whatever loads, push events and
\* mark-read clicks came before.
C18_BadgeCountsUnread ==
    \A p \in PanelSessions : panel[p].unreadCount = Unread(panel[p].notifications)

\* C19: a run of handleComment with nobody logged in, or with a text that is
\* empty or blank, sends no insert and leaves comments as it was; any other run
\* sends exactly one insert, whose row has the open manga and chapter, the
\* logged-in user as user_id and the text without its surrounding blanks as
\* content (the texts that are not blank are " hi " and "hi").
C19_PostComment ==
    [][\A s \in ReaderSessions, text \in CommentTexts :
          HandleComment(s, text) =>
            IF ReaderUser(s) = NULL \/ text \in {"", "  "}
            THEN commentTx' = commentTx /\ comments' = comments
            ELSE \E id \in CommentIds :
                    /\ commentTx[id].phase = "none"
                    /\ commentTx'[id].phase = "inserted"
                    /\ commentTx'[id].row =
                          [id |-> id, manga_id |-> reader[s].thread[1],
                           chapter |-> reader[s].thread[2],
                           user_id |-> ReaderUser(s), content |-> "hi"]
                    /\ \A j \in CommentIds \ {id} : commentTx'[j] = commentTx[j]]_vars

\* A comment of B with content "hi" is committed, it is the only row, and the
\* last run of handleComment was one of the session where nobody is logged in.
C19_Witness ==
    /\ toast = Toast("r0", "Please login to comment")
    /\ Cardinality(comments) = 1
    /\ \E id \in CommentIds :
          /\ commentTx[id].phase = "committed"
          /\ commentTx[id].row.user_id = "B"
          /\ commentTx[id].row.content = "hi"
          /\ commentTx[id].row \in comments

\* C20: the step in which a component handles the response of a failed request
\* leaves its view state as it was: after a failed subscribe or unsubscribe
\* isSubscribed is what it was, and after a failed profile fetch the auth store
\* holds the user it held before.
C20_FailureKeepsState ==
    [][/\ \A s \in ReaderSessions :
            (\E r \in reader[s].inflight :
                /\ r.op \in {"subscribe", "unsubscribe"}
                /\ r.error # NULL
                /\ reader'[s].inflight = reader[s].inflight \ {r})
              => (reader'[s].isSubscribed = reader[s].isSubscribed)
       /\ \A t \in Tabs, c \in CallSites :
            (/\ auth[t].call[c].error # NULL
             /\ auth[t].call[c].pc # "done"
             /\ auth'[t].call[c].pc = "done")
              => (auth'[t].user = auth[t].user)]_vars

\* Nothing of the comment list is under way: no loadComments request, the
\* channel is joined, no insert is in its transaction and every event of the
\* channel has reached the callback.
FeedSettled ==
    /\ feed.loads = {}
    /\ feed.channel = "joined"
    /\ \A id \in CommentIds : commentTx[id].phase \in {"none", "committed", "aborted"}
    /\ \A c \in ThreadComments(reader[FeedSession].thread) :
          c.id \in feed.before \cup feed.delivered

\* C21: once the loadComments result and every pushed insert event have been
\* applied, the list of the logged-in reader holds the comments of the open
\* chapter, each once, newest first.
C21_ListIsThreadNewestFirst ==
    FeedSettled =>
        feed.comments = NewestFirst(ThreadComments(reader[FeedSession].thread))

\* C23: the reader's comment list never holds a comment id twice.
C23_NoDuplicateComment ==
    \A i, j \in DOMAIN feed.comments :
        i # j => feed.comments[i] # feed.comments[j]

\* The rows of user_library for the pair the component is about.
DetailsRows(tbl) ==
    {r \in tbl : r.user_id = DetailsUser /\ r.manga_id = DetailsManga}

C24_NoSelfPromotion ==
    [][\A u \in DOMAIN profiles' :
          (/\ api'.relation = "profiles"
           /\ api'.principal = u
           /\ ~IsAdmin(u)) => ~profiles'[u].is_admin]_vars

\* Every flow of the tab that was started has settled, and a call of
\* fetchUserProfile is among them.
ProfileFlowsSettled(t) ==
    /\ \A c \in CallSites : auth[t].call[c].pc \in {"idle", "done"}
    /\ auth[t].signUp.pc \in {"idle", "done"}
    /\ \E c \in CallSites : auth[t].call[c].pc = "done"

\* C25: once the profile-creating flows of a user (fetchUserProfile from
\* getSession, from onAuthStateChange, Auth's sign-up insert) have all settled,
\* the user has a profile row (one at most, user_id being the key of profiles)
\* and the auth store's user is made of that row, not null.
C25_FlowsEndWithProfile ==
    \A t \in Tabs :
        ProfileFlowsSettled(t) =>
            /\ TabUser(t) \in DOMAIN profiles
            /\ auth[t].user = UserOf(TabUser(t), profiles[TabUser(t)])

\* C26: after every start of App, with a session or without one, the auth
\* store's loading is false in the end.
C26_LoadingEnds == \A t \in Tabs : <>(~auth[t].loading)

\* C27: from the moment handleLogout has completed until the next login the
\* auth store's user is null.
C27_LoggedOutUserIsNull ==
    \A t \in Tabs : (auth[t].logout = "done") => (auth[t].user = NoUser)

\* C28: the Reader's currentPage is never negative and never more than
\* max(0, pages.length - 1).
C28_CurrentPageInRange ==
    /\ pager.currentPage >= 0
    /\ pager.currentPage <= Max(0, pager.pages - 1)

\* C29: whenever autoScroll is true the reading mode is 'cascade' and exactly
\* one scroll interval is running; when autoScroll is false none is running.
C29_AutoScrollHasOneTimer ==
    /\ pager.autoScroll =>
          (pager.readingMode = "cascade" /\ Cardinality(pager.timers) = 1)
    /\ ~pager.autoScroll => (pager.timers = {})

\* C30: once every catalog request of the Directory has settled, the list
\* displayed is the result for the filters selected now, and loading is false.
C30_ListMatchesFilters ==
    (directory.inflight = {}) =>
        /\ directory.mangas =
              FilterByGenres(SelectMangas(directory.selectedStatus, directory.sortBy),
                             directory.selectedGenres)
        /\ ~directory.loading

====
